---- MODULE Spec2Model ----
(***************************************************************************)
(* Model of the task dependency graph subsystem of trade-manager:          *)
(*   YamlManager  (.github/scripts/sync/yaml.js)      the status store     *)
(*   DAGManager   (.github/scripts/sync/task-decomposition.js, l.190 on)   *)
(* The graph container is graphlib's directed Graph: string node keys, a   *)
(* label per node, setEdge() creating absent end nodes with an undefined   *)
(* label, nodes()/successors()/predecessors() listing keys in the order of *)
(* Object.keys (integer-like keys ascending).                              *)
(***************************************************************************)
EXTENDS Integers, Sequences, FiniteSets, TLC

VARIABLES
    file,       \* DEVELOPMENT_STATUS.yaml: the list next_available_tasks
    graph,      \* DAGManager.graph
    built,      \* the file content (data) the last buildGraph() read and what
                \* getAllTasks() made of it (tasks), once one ran (done)
    outcome,    \* "ok", or "error" when the last operation threw
    backup,     \* DEVELOPMENT_STATUS.yaml.bak: whether it exists, and its content
    hist,       \* history of the backups: the status file as it was at the latest
                \* createBackup(), whether that one replaced a different backup, and
                \* whether the last operation was a restore that succeeded
    procs,      \* the processes updating the status file: where each one stands in
                \* updateTask(), its arguments and the data readStatus() gave it
    io          \* the last call to the CrossRepoHandler: arguments and result

vars == <<file, graph, built, outcome, backup, hist, procs, io>>

-----------------------------------------------------------------------------
(* Bounds of the model *)

NumTasks == 3
MaxDeps == 2

(* An id that no task has (validate-yaml.test.js uses 999 for it) *)
MissingId == 999

\* an absent string field; an absent complexity; the label of a node set without one
Undefined == "undefined"
NoComplexity == 0
UndefinedTask == [undefined |-> TRUE]
IsUndefined(task) == "undefined" \in DOMAIN task

\* this.repoPath
RepoPath == "repoPath"

TaskIds == 1..NumTasks
CallIds == TaskIds \cup {MissingId}

-----------------------------------------------------------------------------
(* JavaScript helpers *)

\* id.toString()
Str(n) == ToString(n)

\* parseInt(nodeId): the number a key is the decimal notation of
KeyNumber == [k \in {ToString(n) : n \in CallIds} |-> CHOOSE n \in CallIds : ToString(n) = k]
ParseInt(s) == KeyNumber[s]

\* the elements of a sequence
Range(s) == {s[i] : i \in DOMAIN s}

\* Array.prototype.indexOf, 1-based; 0 when absent (JavaScript's -1)
IndexOf(s, x) ==
    IF \E i \in DOMAIN s : s[i] = x
    THEN CHOOSE i \in DOMAIN s : s[i] = x /\ \A j \in 1..(i - 1) : s[j] # x
    ELSE 0

\* a slice that starts one element late
SliceAfter(s, i) == SubSeq(s, i + 1, Len(s))

\* Array.prototype.slice(start) for the start indexOf gave: slice(-1) is the last element
SliceFrom(s, i) ==
    IF i = 0
    THEN IF Len(s) = 0 THEN <<>> ELSE <<s[Len(s)]>>
    ELSE SubSeq(s, i, Len(s))

\* Object.keys of an object whose keys are integer-like: ascending numeric order
RECURSIVE KeysInOrder(_)
KeysInOrder(S) ==
    IF S = {} THEN <<>>
    ELSE LET k == CHOOSE x \in S : \A y \in S : ParseInt(x) <= ParseInt(y)
         IN <<k>> \o KeysInOrder(S \ {k})

-----------------------------------------------------------------------------
(* graphlib Graph *)

\* new Graph({ directed: true })
NewGraph == [nodes |-> {}, label |-> <<>>, edges |-> {}]

\* graph.hasNode(v)
HasNode(g, v) == v \in g.nodes

\* graph.setNode(v, value): creates the node or replaces its label
SetNode(g, v, value) ==
    [g EXCEPT !.nodes = @ \cup {v},
              !.label = [k \in g.nodes \cup {v} |-> IF k = v THEN value ELSE g.label[k]]]

\* graph.setNode(v): creates the node with the default (undefined) label, keeps an existing one
EnsureNode(g, v) == IF HasNode(g, v) THEN g ELSE SetNode(g, v, UndefinedTask)

\* graph.setEdge(v, w): ensures both end nodes exist, then adds the edge
SetEdge(g, v, w) ==
    IF <<v, w>> \in g.edges THEN g
    ELSE [EnsureNode(EnsureNode(g, v), w) EXCEPT !.edges = @ \cup {<<v, w>>}]

\* graph.node(v): the label, undefined for an unknown node
Node(g, v) == IF HasNode(g, v) THEN g.label[v] ELSE UndefinedTask

\* graph.nodes()
Nodes(g) == KeysInOrder(g.nodes)

\* graph.successors(v) || []
Successors(g, v) ==
    IF HasNode(g, v) THEN KeysInOrder({w \in g.nodes : <<v, w>> \in g.edges}) ELSE <<>>

\* graph.predecessors(v) || []
Predecessors(g, v) ==
    IF HasNode(g, v) THEN KeysInOrder({u \in g.nodes : <<u, v>> \in g.edges}) ELSE <<>>

-----------------------------------------------------------------------------
(* YamlManager *)

\* a task as the status file holds it
FileTask(i) ==
    [id |-> i, status |-> "ready", dependencies |-> <<>>,
     repository |-> Undefined, milestone |-> Undefined, complexity |-> NoComplexity]

\* data.next_available_tasks.find(t => t.id === taskId): its index, 0 when absent
FindTask(data, taskId) ==
    IF \E i \in DOMAIN data : data[i].id = taskId
    THEN CHOOSE i \in DOMAIN data : data[i].id = taskId /\ \A j \in 1..(i - 1) : data[j].id # taskId
    ELSE 0

\* the ids of the tasks of the status file
IdsOfData(data) == {data[i].id : i \in DOMAIN data}

\* Object.assign(task, updates)
Assign(task, updates) ==
    [f \in DOMAIN task \cup DOMAIN updates |->
        IF f \in DOMAIN updates THEN updates[f] ELSE task[f]]

\* getAllTasks(): the fields the graph receives of every task
GetAllTasks(data) ==
    [i \in DOMAIN data |->
        [id |-> data[i].id,
         status |-> data[i].status,
         dependencies |-> data[i].dependencies,
         repository |-> IF data[i].repository = Undefined THEN RepoPath
                        ELSE data[i].repository]]

-----------------------------------------------------------------------------
(* DAGManager.buildGraph *)

\* tasks.forEach(task => graph.setNode(task.id.toString(), task))
RECURSIVE AddNodes(_, _)
AddNodes(g, tasks) ==
    IF tasks = <<>> THEN g
    ELSE AddNodes(SetNode(g, Str(Head(tasks).id), Head(tasks)), Tail(tasks))

\* (task.dependencies || []).forEach(depId => graph.setEdge(depId.toString(), task.id.toString()))
RECURSIVE AddDeps(_, _, _)
AddDeps(g, deps, taskKey) ==
    IF deps = <<>> THEN g
    ELSE AddDeps(SetEdge(g, Str(Head(deps)), taskKey), Tail(deps), taskKey)

RECURSIVE AddEdges(_, _)
AddEdges(g, tasks) ==
    IF tasks = <<>> THEN g
    ELSE AddEdges(AddDeps(g, Head(tasks).dependencies, Str(Head(tasks).id)), Tail(tasks))

\* the graph buildGraph() leaves in this.graph
BuildGraphOf(tasks) == AddEdges(AddNodes(NewGraph, tasks), tasks)

-----------------------------------------------------------------------------
(* Results of operations that may throw *)

Return(v) == [threw |-> FALSE, value |-> v]
Throw == [threw |-> TRUE, value |-> <<>>]

-----------------------------------------------------------------------------
(* DAGManager.findCycles / hasCycles *)

RECURSIVE Dfs(_, _, _, _)
RECURSIVE DfsSuccessors(_, _, _, _, _)

\* const dfs = (nodeId, path = []) => ...; st holds visited, recursionStack, cycles
\* and the value the call returned (found)
Dfs(g, nodeId, path, st) ==
    DfsSuccessors(g, nodeId, Append(path, nodeId), Successors(g, nodeId),
                  [st EXCEPT !.visited = @ \cup {nodeId},
                             !.recursionStack = @ \cup {nodeId}])

\* the for loop over the successors, and the epilogue of dfs
DfsSuccessors(g, nodeId, path, successors, st) ==
    IF successors = <<>>
    THEN [st EXCEPT !.recursionStack = @ \ {nodeId}, !.found = FALSE]
    ELSE LET successor == Head(successors)
         IN IF successor \notin st.visited
            THEN LET r == Dfs(g, successor, path, st)
                 IN IF r.found THEN r
                    ELSE DfsSuccessors(g, nodeId, path, Tail(successors), r)
            ELSE IF successor \in st.recursionStack
            THEN [st EXCEPT !.cycles = Append(@, SliceFrom(path, IndexOf(path, successor))),
                            !.found = TRUE]
            ELSE DfsSuccessors(g, nodeId, path, Tail(successors), st)

\* for (const node of nodes) if (!visited.has(node)) dfs(node)
RECURSIVE FindCyclesFrom(_, _, _)
FindCyclesFrom(g, nodes, st) ==
    IF nodes = <<>> THEN st
    ELSE FindCyclesFrom(g, Tail(nodes),
            IF Head(nodes) \in st.visited THEN st ELSE Dfs(g, Head(nodes), <<>>, st))

FindCycles(g) ==
    FindCyclesFrom(g, Nodes(g),
        [visited |-> {}, recursionStack |-> {}, cycles |-> <<>>, found |-> FALSE]).cycles

HasCycles(g) == Len(FindCycles(g)) > 0

-----------------------------------------------------------------------------
(* DAGManager.getAvailableTasks *)

\* a check that holds of the tasks without predecessors only
NoPredecessors(g, predecessors) == IF predecessors = <<>> THEN "true" ELSE "false"

\* predecessors.every(depId => graph.node(depId).status === 'completed'):
\* "true", "false", or "throw" when a predecessor's label is undefined
RECURSIVE EveryCompleted(_, _)
EveryCompleted(g, predecessors) ==
    IF predecessors = <<>> THEN "true"
    ELSE LET depTask == Node(g, Head(predecessors))
         IN IF IsUndefined(depTask) THEN "throw"
            ELSE IF depTask.status # "completed" THEN "false"
            ELSE EveryCompleted(g, Tail(predecessors))

RECURSIVE AvailableFrom(_, _, _)
AvailableFrom(g, nodes, available) ==
    IF nodes = <<>> THEN Return(available)
    ELSE LET task == Node(g, Head(nodes))
             allDepsCompleted == EveryCompleted(g, Predecessors(g, Head(nodes)))
         IN IF allDepsCompleted = "throw" THEN Throw
            ELSE IF allDepsCompleted = "false" THEN AvailableFrom(g, Tail(nodes), available)
            ELSE IF IsUndefined(task) THEN Throw
            ELSE IF task.status # "completed"
            THEN AvailableFrom(g, Tail(nodes), Append(available, task))
            ELSE AvailableFrom(g, Tail(nodes), available)

GetAvailableTasks(g) == AvailableFrom(g, Nodes(g), <<>>)

-----------------------------------------------------------------------------
(* DAGManager.getAffectedTasks *)

\* a traversal that follows only the first successor
PushFirstOnly(stack, successors, affected) ==
    IF successors = <<>> \/ Head(successors) \in Range(affected) THEN stack
    ELSE Append(stack, Head(successors))

\* for (const successor of successors) if (!affected.has(successor)) stack.push(successor)
RECURSIVE PushUnseen(_, _, _)
PushUnseen(stack, successors, affected) ==
    IF successors = <<>> THEN stack
    ELSE PushUnseen(IF Head(successors) \in Range(affected) THEN stack
                    ELSE Append(stack, Head(successors)),
                    Tail(successors), affected)

\* while (stack.length > 0) { current = stack.pop(); affected.add(current); ... }
\* affected is the Set in insertion order
RECURSIVE AffectedLoop(_, _, _)
AffectedLoop(g, stack, affected) ==
    IF stack = <<>> THEN affected
    ELSE LET current == stack[Len(stack)]
             added == IF current \in Range(affected) THEN affected
                      ELSE Append(affected, current)
         IN AffectedLoop(g,
                PushUnseen(SubSeq(stack, 1, Len(stack) - 1), Successors(g, current), added),
                added)

\* the Set after affected.delete(taskId.toString()), as Array.from lists it
AffectedKeys(g, taskId) ==
    SelectSeq(AffectedLoop(g, <<Str(taskId)>>, <<>>), LAMBDA k : k # Str(taskId))

GetAffectedTasks(g, taskId) ==
    LET keys == AffectedKeys(g, taskId)
    IN [i \in DOMAIN keys |-> Node(g, keys[i])]

-----------------------------------------------------------------------------
(* DAGManager.validateDependencies *)

\* a visit that does not follow the successors
VisitOnly(g, nodeId, visited) == visited \cup {nodeId}

\* const dfs = (nodeId) => { visited.add(nodeId); successors not yet visited: dfs }
RECURSIVE Visit(_, _, _)
RECURSIVE VisitAll(_, _, _)
Visit(g, nodeId, visited) == VisitAll(g, Successors(g, nodeId), visited \cup {nodeId})
VisitAll(g, nodes, visited) ==
    IF nodes = <<>> THEN visited
    ELSE VisitAll(g, Tail(nodes),
            IF Head(nodes) \in visited THEN visited ELSE Visit(g, Head(nodes), visited))

\* roots.forEach(root => dfs(root)): a root is visited even when an earlier one reached it
RECURSIVE VisitRoots(_, _, _)
VisitRoots(g, roots, visited) ==
    IF roots = <<>> THEN visited
    ELSE VisitRoots(g, Tail(roots), Visit(g, Head(roots), visited))

FindUnreachableTasks(g) ==
    LET roots == SelectSeq(Nodes(g), LAMBDA n : Len(Predecessors(g, n)) = 0)
        visited == VisitRoots(g, roots, {})
        unreachable == SelectSeq(Nodes(g), LAMBDA n : n \notin visited)
    IN [i \in DOMAIN unreachable |-> Node(g, unreachable[i])]

\* (task.dependencies || []).forEach(depId => if (!graph.hasNode(depId.toString())) missing.push(..))
RECURSIVE MissingOf(_, _, _, _)
MissingOf(g, nodeId, deps, missing) ==
    IF deps = <<>> THEN missing
    ELSE MissingOf(g, nodeId, Tail(deps),
            IF HasNode(g, Str(Head(deps))) THEN missing
            ELSE Append(missing, [taskId |-> ParseInt(nodeId),
                                  missingDependency |-> Head(deps)]))

\* nodes.forEach(nodeId => { task = graph.node(nodeId); task.dependencies ... })
RECURSIVE MissingFrom(_, _, _)
MissingFrom(g, nodes, missing) ==
    IF nodes = <<>> THEN Return(missing)
    ELSE LET task == Node(g, Head(nodes))
         IN IF IsUndefined(task) THEN Throw
            ELSE MissingFrom(g, Tail(nodes),
                    MissingOf(g, Head(nodes), task.dependencies, missing))

FindMissingDependencies(g) == MissingFrom(g, Nodes(g), <<>>)

\* a report whose valid flag ignores the cycle check
ValidateIgnoringCycles(g) ==
    LET components == FindUnreachableTasks(g)
        missing == FindMissingDependencies(g)
    IN IF missing.threw THEN Throw
       ELSE Return([hasCycles |-> HasCycles(g),
                    unreachableTasks |-> components,
                    missingDependencies |-> missing.value,
                    valid |-> Len(components) = 0 /\ Len(missing.value) = 0])

\* results.valid starts true; each failed check sets it false
ValidateDependencies(g) ==
    LET cyclic == HasCycles(g)
        valid1 == IF cyclic THEN FALSE ELSE TRUE
        components == FindUnreachableTasks(g)
        valid2 == IF Len(components) > 0 THEN FALSE ELSE valid1
        missing == FindMissingDependencies(g)
        valid3 == IF Len(missing.value) > 0 THEN FALSE ELSE valid2
    IN IF missing.threw THEN Throw
       ELSE Return([hasCycles |-> cyclic,
                    unreachableTasks |-> components,
                    missingDependencies |-> missing.value,
                    valid |-> valid3])

-----------------------------------------------------------------------------
(* DAGManager.getCrossRepoDependencies / getCrossRepoDependents *)

\* forEach(id => { t = graph.node(id); if (t && t.repository !== task.repository) push(t) })
RECURSIVE OtherRepoTasks(_, _, _, _)
OtherRepoTasks(g, task, keys, found) ==
    IF keys = <<>> THEN found
    ELSE LET other == Node(g, Head(keys))
         IN OtherRepoTasks(g, task, Tail(keys),
                IF ~IsUndefined(other) /\ other.repository # task.repository
                THEN Append(found, other) ELSE found)

GetCrossRepoDependencies(g, taskId) ==
    LET task == Node(g, Str(taskId))
    IN IF IsUndefined(task) THEN Throw
       ELSE Return(OtherRepoTasks(g, task,
                [i \in DOMAIN task.dependencies |-> Str(task.dependencies[i])], <<>>))

GetCrossRepoDependents(g, taskId) ==
    LET task == Node(g, Str(taskId))
    IN IF IsUndefined(task) THEN Throw
       ELSE Return(OtherRepoTasks(g, task, Successors(g, Str(taskId)), <<>>))

-----------------------------------------------------------------------------
(* DAGManager.getTasksByMilestone / getMilestoneStatus *)

\* task.milestone: undefined when the record has no such property
MilestoneOf(task) == IF "milestone" \in DOMAIN task THEN task.milestone ELSE Undefined

RECURSIVE MilestoneFrom(_, _, _, _)
MilestoneFrom(g, nodes, milestone, milestoneTasks) ==
    IF nodes = <<>> THEN Return(milestoneTasks)
    ELSE LET task == Node(g, Head(nodes))
         IN IF IsUndefined(task) THEN Throw
            ELSE MilestoneFrom(g, Tail(nodes), milestone,
                    IF MilestoneOf(task) = milestone THEN Append(milestoneTasks, task)
                    ELSE milestoneTasks)

GetTasksByMilestone(g, milestone) == MilestoneFrom(g, Nodes(g), milestone, <<>>)

\* tasks.filter(t => t.status === status).length
CountStatus(tasks, status) == Len(SelectSeq(tasks, LAMBDA t : t.status = status))

\* percentComplete is the fraction num / den: (completed / total) * 100, or 0
GetMilestoneStatus(g, milestone) ==
    LET got == GetTasksByMilestone(g, milestone)
        tasks == got.value
        total == Len(tasks)
        completed == CountStatus(tasks, "completed")
    IN IF got.threw THEN Throw
       ELSE Return([milestone |-> milestone,
                    total |-> total,
                    completed |-> completed,
                    inProgress |-> CountStatus(tasks, "in_progress"),
                    blocked |-> CountStatus(tasks, "blocked"),
                    percentComplete |-> IF total > 0
                                        THEN [num |-> completed * 100, den |-> total]
                                        ELSE [num |-> 0, den |-> 1],
                    repositories |-> {tasks[i].repository : i \in DOMAIN tasks}])

-----------------------------------------------------------------------------
(* DAGManager.getAllCrossRepoDependencies / getProjectStatus *)

\* nodes().forEach(nodeId => { deps = getCrossRepoDependencies(parseInt(nodeId)); ... })
RECURSIVE AllCrossRepoFrom(_, _, _)
AllCrossRepoFrom(g, nodes, crossRepoDeps) ==
    IF nodes = <<>> THEN Return(crossRepoDeps)
    ELSE LET task == Node(g, Head(nodes))
             deps == GetCrossRepoDependencies(g, ParseInt(Head(nodes)))
         IN IF deps.threw THEN Throw
            ELSE AllCrossRepoFrom(g, Tail(nodes),
                    IF Len(deps.value) > 0
                    THEN Append(crossRepoDeps, [taskId |-> ParseInt(Head(nodes)),
                                                repository |-> task.repository,
                                                dependencies |-> deps.value])
                    ELSE crossRepoDeps)

GetAllCrossRepoDependencies(g) == AllCrossRepoFrom(g, Nodes(g), <<>>)

\* (completedTasks / totalTasks) * 100 as the fraction num / den; 0 / 0 is NaN
Percent(completed, total) == [num |-> completed * 100, den |-> total]

\* [...new Set(tasks.map(t => t.milestone).filter(Boolean))]
MilestonesOf(tasks) ==
    {MilestoneOf(tasks[i]) : i \in DOMAIN tasks} \ {Undefined}

GetProjectStatus(g) ==
    LET nodes == Nodes(g)
        tasks == [i \in DOMAIN nodes |-> Node(g, nodes[i])]
        cross == GetAllCrossRepoDependencies(g)
        completedTasks == CountStatus(tasks, "completed")
    IN IF \E i \in DOMAIN tasks : IsUndefined(tasks[i]) THEN Throw
       ELSE IF \E m \in MilestonesOf(tasks) : GetMilestoneStatus(g, m).threw THEN Throw
       ELSE IF cross.threw THEN Throw
       ELSE Return([totalTasks |-> Len(tasks),
                    completedTasks |-> completedTasks,
                    inProgressTasks |-> CountStatus(tasks, "in_progress"),
                    blockedTasks |-> CountStatus(tasks, "blocked"),
                    repositories |-> {tasks[i].repository : i \in DOMAIN tasks},
                    milestones |-> {GetMilestoneStatus(g, m).value : m \in MilestonesOf(tasks)},
                    crossRepoDependencies |-> cross.value,
                    percentComplete |-> Percent(completedTasks, Len(tasks))])

-----------------------------------------------------------------------------
(* DAGManager.getAllDownstreamTasks / getCriticalPathTasks *)

\* Array.prototype.sort(compare): stable; before[i, j] is compare(s[i], s[j]) < 0
StableSort(s, before) ==
    LET pos(i) == 1 + Cardinality({j \in DOMAIN s :
                        before[j, i] \/ (~before[i, j] /\ j < i)})
    IN [p \in DOMAIN s |-> s[CHOOSE i \in DOMAIN s : pos(i) = p]]

\* successors.forEach(sucId => { if (!downstream.has(sucId)) { add; push } })
\* st holds the stack and the Set downstream in insertion order
RECURSIVE AddDownstream(_, _)
AddDownstream(successors, st) ==
    IF successors = <<>> THEN st
    ELSE AddDownstream(Tail(successors),
            IF Head(successors) \in Range(st.downstream) THEN st
            ELSE [stack |-> Append(st.stack, Head(successors)),
                  downstream |-> Append(st.downstream, Head(successors))])

\* while (stack.length > 0) { current = stack.pop(); ... }
RECURSIVE DownstreamLoop(_, _)
DownstreamLoop(g, st) ==
    IF st.stack = <<>> THEN st.downstream
    ELSE LET current == st.stack[Len(st.stack)]
         IN DownstreamLoop(g,
                AddDownstream(Successors(g, current),
                              [st EXCEPT !.stack = SubSeq(@, 1, Len(@) - 1)]))

DownstreamKeys(g, taskId) ==
    DownstreamLoop(g, [stack |-> <<Str(taskId)>>, downstream |-> <<>>])

\* Array.from(downstream).map(id => graph.node(id))
GetAllDownstreamTasks(g, taskId) ==
    LET keys == DownstreamKeys(g, taskId)
    IN [i \in DOMAIN keys |-> Node(g, keys[i])]

\* allDownstream.filter(t => t.status === status).length; reading the status of an
\* undefined label throws
CriticalEntry(g, nodeId) ==
    LET allDownstream == GetAllDownstreamTasks(g, ParseInt(nodeId))
    IN IF \E i \in DOMAIN allDownstream : IsUndefined(allDownstream[i]) THEN Throw
       ELSE Return([task |-> Node(g, nodeId),
                    directDependents |-> Len(Successors(g, nodeId)),
                    totalDownstream |-> Len(allDownstream),
                    blocksCompletedTasks |-> CountStatus(allDownstream, "completed"),
                    blocksInProgressTasks |-> CountStatus(allDownstream, "in_progress")])

\* a comparison that never puts an entry before another
SameRank(a, b) == FALSE

\* compare(a, b) = b.totalDownstream - a.totalDownstream
MoreDownstream(a, b) == b.totalDownstream - a.totalDownstream < 0

GetCriticalPathTasks(g) ==
    LET nodes == Nodes(g)
        criticalTasks == [i \in DOMAIN nodes |-> CriticalEntry(g, nodes[i])]
    IN IF \E i \in DOMAIN nodes : criticalTasks[i].threw THEN Throw
       ELSE LET entries == [i \in DOMAIN nodes |-> criticalTasks[i].value]
            IN Return(StableSort(entries,
                    [i, j \in DOMAIN entries |-> MoreDownstream(entries[i], entries[j])]))

-----------------------------------------------------------------------------
(* DAGManager.getRecommendedTasks *)

\* options.milestone, options.repository, options.limit: falsy when absent
OptionOf(options, field) ==
    IF field \in DOMAIN options THEN options[field] ELSE Undefined

\* task.complexity: undefined (falsy, as 0 is) when the record has no such property
ComplexityOf(task) == IF "complexity" \in DOMAIN task THEN task.complexity ELSE NoComplexity

\* the filters: a task is skipped when a filter is set and the task's field differs
Skipped(task, options) ==
    \/ OptionOf(options, "milestone") # Undefined
          /\ MilestoneOf(task) # OptionOf(options, "milestone")
    \/ OptionOf(options, "repository") # Undefined
          /\ task.repository # OptionOf(options, "repository")

\* priorityScore as the fraction num / den: downstream x 10 + cross-repo x 15
\* + (1 - percentComplete / 100) x 20 for a task with a milestone
\* + (5 - complexity) x 5 for a task with a complexity
PriorityScore(g, task) ==
    LET downstream == GetAllDownstreamTasks(g, task.id)
        crossRepoDeps == GetCrossRepoDependencies(g, task.id)
        crossRepoDependent == GetCrossRepoDependents(g, task.id)
        milestoneStatus == GetMilestoneStatus(g, MilestoneOf(task))
        whole == Len(downstream) * 10
                 + (Len(crossRepoDeps.value) + Len(crossRepoDependent.value)) * 15
                 + (IF ComplexityOf(task) # NoComplexity
                    THEN (5 - ComplexityOf(task)) * 5 ELSE 0)
    IN IF crossRepoDeps.threw \/ crossRepoDependent.threw THEN Throw
       ELSE IF MilestoneOf(task) = Undefined THEN Return([num |-> whole, den |-> 1])
       ELSE IF milestoneStatus.threw THEN Throw
       ELSE LET p == milestoneStatus.value.percentComplete
            IN Return([num |-> whole * 5 * p.den + (100 * p.den - p.num),
                       den |-> 5 * p.den])

\* compare(a, b) = b.priorityScore - a.priorityScore
HigherScore(a, b) ==
    b.priorityScore.num * a.priorityScore.den - a.priorityScore.num * b.priorityScore.den < 0

\* recommendations.slice(0, limit)
SliceTo(s, limit) ==
    IF limit >= 0 THEN SubSeq(s, 1, IF limit < Len(s) THEN limit ELSE Len(s))
    ELSE SubSeq(s, 1, Len(s) + limit)

\* options.limit ? recommendations.slice(0, options.limit) : recommendations
Truncate(s, options) ==
    IF "limit" \in DOMAIN options /\ options.limit # 0 THEN SliceTo(s, options.limit) ELSE s

GetRecommendedTasks(g, options) ==
    LET available == GetAvailableTasks(g)
        kept == SelectSeq(available.value, LAMBDA task : ~Skipped(task, options))
        scores == [i \in DOMAIN kept |-> PriorityScore(g, kept[i])]
        recommendations == [i \in DOMAIN kept |->
                               [task |-> kept[i], priorityScore |-> scores[i].value]]
    IN IF available.threw THEN Throw
       ELSE IF \E i \in DOMAIN kept : scores[i].threw THEN Throw
       ELSE Return(Truncate(StableSort(recommendations,
                    [i, j \in DOMAIN recommendations |->
                        HigherScore(recommendations[i], recommendations[j])]), options))

-----------------------------------------------------------------------------
(* State machine *)

\* the two processes that may run the sync scripts on one status file
Processes == {1, 2}

\* a process that is in no operation
Idle == [pc |-> "idle", taskId |-> 0, updates |-> <<>>, data |-> <<>>, order |-> 0]

\* no call to the CrossRepoHandler yet
NoCall == [call |-> "none", args |-> <<>>, result |-> <<>>]

Init ==
    /\ file = [i \in TaskIds |-> FileTask(i)]
    /\ graph = NewGraph
    /\ built = [done |-> FALSE, data |-> <<>>, tasks |-> <<>>]
    /\ outcome = "ok"
    /\ backup = [exists |-> FALSE, data |-> <<>>]
    /\ hist = [latest |-> <<>>, overwritten |-> FALSE, restored |-> FALSE]
    /\ procs = [p \in Processes |-> Idle]
    /\ io = NoCall

\* what an operation of the YamlManager or the DAGManager other than createBackup and
\* restoreFromBackup leaves alone: the backup file, the other processes, the handler
Other ==
    /\ hist' = [hist EXCEPT !.restored = FALSE]
    /\ UNCHANGED <<backup, procs, io>>

\* an update that adds the task when no task has the id
UpsertTask(taskId, updates) ==
    LET i == FindTask(file, taskId)
    IN /\ file' = IF i = 0 THEN Append(file, Assign(FileTask(taskId), updates))
                  ELSE [file EXCEPT ![i] = Assign(@, updates)]
       /\ outcome' = "ok"
       /\ UNCHANGED <<graph, built>>
       /\ Other

\* YamlManager.updateTask(taskId, updates): readStatus, find, Object.assign, writeStatus
UpdateTask(taskId, updates) ==
    LET i == FindTask(file, taskId)
    IN IF i = 0
       THEN /\ outcome' = "error"
            /\ UNCHANGED <<file, graph, built>>
            /\ Other
       ELSE /\ file' = [file EXCEPT ![i] = Assign(@, updates)]
            /\ outcome' = "ok"
            /\ UNCHANGED <<graph, built>>
            /\ Other

\* DAGManager.buildGraph(): a new Graph from getAllTasks()
BuildGraph ==
    /\ graph' = BuildGraphOf(GetAllTasks(file))
    /\ built' = [done |-> TRUE, data |-> file, tasks |-> GetAllTasks(file)]
    /\ outcome' = "ok"
    /\ UNCHANGED file
    /\ Other

\* DAGManager.updateTaskStatus(taskId, status): updateTask, buildGraph, getAffectedTasks
UpdateTaskStatus(taskId, status) ==
    LET i == FindTask(file, taskId)
        data == [file EXCEPT ![i] = Assign(@, [status |-> status])]
    IN IF i = 0
       THEN /\ outcome' = "error"
            /\ UNCHANGED <<file, graph, built>>
            /\ Other
       ELSE /\ file' = data
            /\ graph' = BuildGraphOf(GetAllTasks(data))
            /\ built' = [done |-> TRUE, data |-> data, tasks |-> GetAllTasks(data)]
            /\ outcome' = "ok"
            /\ Other

\* YamlManager.updateTaskDependencies(taskId, dependencies, blocking)
UpdateTaskDependencies(taskId, dependencies, blocking) ==
    LET i == FindTask(file, taskId)
    IN IF i = 0
       THEN /\ outcome' = "error"
            /\ UNCHANGED <<file, graph, built>>
            /\ Other
       ELSE /\ file' = [file EXCEPT ![i] =
                           Assign(@, [dependencies |-> dependencies, blocking |-> blocking])]
            /\ outcome' = "ok"
            /\ UNCHANGED <<graph, built>>
            /\ Other

\* the status file as a file: it exists throughout
StatusFile == [exists |-> TRUE, data |-> file]

\* a copy that keeps the destination when there is one
CopyIfAbsent(src, dest) == IF dest.exists THEN dest ELSE [exists |-> TRUE, data |-> src.data]

\* fs.copyFileSync(src, dest): dest is created or overwritten with the content of src
CopyFileSync(src, dest) == [exists |-> TRUE, data |-> src.data]

\* YamlManager.createBackup(): copies the status file to statusPath + '.bak'
CreateBackup ==
    /\ backup' = CopyFileSync(StatusFile, backup)
    /\ hist' = [latest |-> file,
                overwritten |-> backup.exists /\ backup.data # file,
                restored |-> FALSE]
    /\ outcome' = "ok"
    /\ UNCHANGED <<file, graph, built, procs, io>>

\* YamlManager.restoreFromBackup(backupPath), backupPath being what createBackup() returns;
\* copyFileSync throws when there is no such file
RestoreFromBackup ==
    IF ~backup.exists
    THEN /\ outcome' = "error"
         /\ UNCHANGED <<file, graph, built>>
         /\ Other
    ELSE /\ file' = CopyFileSync(backup, StatusFile).data
         /\ hist' = [hist EXCEPT !.restored = TRUE]
         /\ outcome' = "ok"
         /\ UNCHANGED <<graph, built, backup, procs, io>>

\* updateTask(taskId, updates) run by process p, first half: data = this.readStatus()
ReadStatus(p, taskId, updates) ==
    /\ procs[p].pc = "idle"
    /\ procs' = [procs EXCEPT ![p] = [pc |-> "read", taskId |-> taskId, updates |-> updates,
                                      data |-> file, order |-> 0]]
    /\ UNCHANGED <<file, graph, built, outcome, backup, hist, io>>

\* the whole snapshot a process writes: what it read, with its update on its task
Written(p) ==
    LET i == FindTask(procs[p].data, procs[p].taskId)
    IN IF i = 0 THEN procs[p].data
       ELSE [procs[p].data EXCEPT ![i] = Assign(@, procs[p].updates)]

\* the number of processes that have written
Writes == Cardinality({q \in Processes : procs[q].pc = "done"})

\* a write that applies the update to the file as it is now
MergeStatus(p) ==
    /\ procs[p].pc = "read"
    /\ file' = [file EXCEPT ![FindTask(file, procs[p].taskId)] = Assign(@, procs[p].updates)]
    /\ procs' = [procs EXCEPT ![p].pc = "done", ![p].order = Writes + 1]
    /\ outcome' = "ok"
    /\ hist' = [hist EXCEPT !.restored = FALSE]
    /\ UNCHANGED <<graph, built, backup, io>>

\* updateTask run by process p, second half: find, Object.assign, this.writeStatus(data)
WriteStatus(p) ==
    /\ procs[p].pc = "read"
    /\ IF FindTask(procs[p].data, procs[p].taskId) = 0
       THEN outcome' = "error" /\ UNCHANGED file
       ELSE outcome' = "ok" /\ file' = Written(p)
    /\ procs' = [procs EXCEPT ![p].pc = "done", ![p].order = Writes + 1]
    /\ hist' = [hist EXCEPT !.restored = FALSE]
    /\ UNCHANGED <<graph, built, backup, io>>

-----------------------------------------------------------------------------
(* DAGManager.updateTaskStatus as an async function: the call runs up to its *)
(* await, which is past the synchronous yamlManager.updateTask, and the rest *)
(* (buildGraph, getAffectedTasks, return) runs later, the continuations in   *)
(* the order the calls were issued.  io.result lists the calls issued.       *)

\* the calls issued so far for the task, and those still at their await
IssuedCalls == IF io.call = "updateTaskStatus" THEN io.result ELSE <<>>
Awaiting == {k \in DOMAIN IssuedCalls : IssuedCalls[k].state = "awaiting"}

\* a continuation that returns without buildGraph()
ResumeWithoutRebuild ==
    /\ Awaiting # {}
    /\ LET k == CHOOSE a \in Awaiting : \A b \in Awaiting : a <= b
       IN io' = [io EXCEPT !.result[k].state = "resolved"]
    /\ outcome' = "ok"
    /\ UNCHANGED <<file, graph, built, backup, hist, procs>>

\* updateTaskStatus(taskId, status) is called: await this.yamlManager.updateTask(...)
IssueUpdateTaskStatus(taskId, status) ==
    LET i == FindTask(file, taskId)
        call == [status |-> status, affected |-> 0,
                 state |-> IF i = 0 THEN "rejected" ELSE "awaiting"]
    IN /\ io' = [call |-> "updateTaskStatus", args |-> <<taskId>>,
                 result |-> Append(IssuedCalls, call)]
       /\ IF i = 0
          THEN outcome' = "error" /\ UNCHANGED file
          ELSE outcome' = "ok" /\ file' = [file EXCEPT ![i] = Assign(@, [status |-> status])]
       /\ hist' = [hist EXCEPT !.restored = FALSE]
       /\ UNCHANGED <<graph, built, backup, procs>>

\* the continuation of the call that has awaited longest: this.buildGraph(),
\* this.getAffectedTasks(taskId), return affected
ResumeUpdateTaskStatus ==
    /\ Awaiting # {}
    /\ LET k == CHOOSE a \in Awaiting : \A b \in Awaiting : a <= b
           g == BuildGraphOf(GetAllTasks(file))
       IN /\ graph' = g
          /\ built' = [done |-> TRUE, data |-> file, tasks |-> GetAllTasks(file)]
          /\ io' = [io EXCEPT !.result[k].state = "resolved",
                              !.result[k].affected = Len(GetAffectedTasks(g, io.args[1]))]
    /\ outcome' = "ok"
    /\ UNCHANGED <<file, backup, hist, procs>>

-----------------------------------------------------------------------------
(* TaskDecomposer.createSubtasks.  It calls yamlManager.getTask, createTask  *)
(* and updateTask and dagManager.rebuildGraph; getTask, createTask and       *)
(* rebuildGraph are the status store's "get a single task by id", "create a  *)
(* new task" and the graph engine's rebuild.                                 *)

\* yamlManager.getTask(id): the task, NotFound when no task has the id
GetTask(data, taskId) ==
    IF FindTask(data, taskId) = 0 THEN Throw ELSE Return(data[FindTask(data, taskId)])

\* the id yamlManager.createTask assigns: one more than the highest id
NextId(data) ==
    IF data = <<>> THEN 1
    ELSE 1 + CHOOSE m \in IdsOfData(data) : \A n \in IdsOfData(data) : n <= m

\* yamlManager.createTask(newTask): assigns the id and appends the task
CreateTask(data, newTask) == Append(data, Assign(newTask, [id |-> NextId(data)]))

\* for (const subtask of subtasks) { newTask = {...}; createdTasks.push(createTask(newTask)) }
\* st holds the status file's tasks and createdTasks
RECURSIVE CreateAll(_, _, _, _)
CreateAll(st, parent, parentTaskId, subtasks) ==
    IF subtasks = <<>> THEN st
    ELSE LET newTask == Assign(Head(subtasks),
                               [status |-> "ready",
                                dependencies |-> <<parentTaskId>>,
                                repository |-> parent.repository,
                                parentTask |-> parentTaskId])
         IN CreateAll([data |-> CreateTask(st.data, newTask),
                       createdTasks |-> Append(st.createdTasks, NextId(st.data))],
                      parent, parentTaskId, Tail(subtasks))

\* createSubtasks(parentTaskId, subtasks)
CreateSubtasks(parentTaskId, subtasks) ==
    LET got == GetTask(file, parentTaskId)
        parent == got.value
        st == CreateAll([data |-> file, createdTasks |-> <<>>], parent, parentTaskId, subtasks)
        i == FindTask(st.data, parentTaskId)
        data == [st.data EXCEPT ![i] =
                    Assign(@, Assign(parent, [subtasks |-> st.createdTasks,
                                              status |-> "in_progress"]))]
    IN IF got.threw
       THEN /\ outcome' = "error"
            /\ UNCHANGED <<file, graph, built>>
            /\ Other
       ELSE /\ file' = data
            /\ graph' = BuildGraphOf(GetAllTasks(data))
            /\ built' = [done |-> TRUE, data |-> data, tasks |-> GetAllTasks(data)]
            /\ outcome' = "ok"
            /\ Other

-----------------------------------------------------------------------------
(* CrossRepoHandler.parseReferences.  A string is the sequence of its pieces: *)
(* a repository name or a word, ":", "#", "- ", a digit, a line break.        *)

\* this.repos
KnownRepos == {"trade-manager", "trade-dashboard", "trade-discovery", "market-analysis"}

Digits == {"0", "1", "2"}
DigitValue == ("0" :> 0) @@ ("1" :> 1) @@ ("2" :> 2)

\* parseInt(match[2]) for a string of digits
RECURSIVE ParseDigits(_)
ParseDigits(s) ==
    IF s = <<>> THEN 0
    ELSE ParseDigits(SubSeq(s, 1, Len(s) - 1)) * 10 + DigitValue[s[Len(s)]]

\* s.match(/^([^:]+):(\d+)$/): the two groups, or no match
MatchReference(s) ==
    LET colons == {i \in DOMAIN s : s[i] = ":"}
        k == CHOOSE i \in colons : TRUE
    IN IF /\ Cardinality(colons) = 1
          /\ k > 1 /\ k < Len(s)
          /\ \A i \in (k + 1)..Len(s) : s[i] \in Digits
       THEN [matched |-> TRUE, repo |-> SubSeq(s, 1, k - 1), issue |-> SubSeq(s, k + 1, Len(s))]
       ELSE [matched |-> FALSE, repo |-> <<>>, issue |-> <<>>]

\* the entry pushed for obj.reference, if any: the reference is a string, it matches,
\* and this.repos.includes(match[1])
OwnReference(reference) ==
    IF reference.type # "string" THEN <<>>
    ELSE LET match == MatchReference(reference.chars)
         IN IF match.matched /\ Len(match.repo) = 1 /\ match.repo[1] \in KnownRepos
            THEN <<[repo |-> match.repo[1], issue |-> ParseDigits(match.issue)]>>
            ELSE <<>>

\* findRefs(obj) for an object: its own reference, then Object.values(obj).forEach(findRefs);
\* children lists the values that are objects, the others add nothing
RECURSIVE FindRefs(_)
RECURSIVE FindRefsOfAll(_)
FindRefs(obj) == OwnReference(obj.reference) \o FindRefsOfAll(obj.children)
FindRefsOfAll(objs) ==
    IF objs = <<>> THEN <<>> ELSE FindRefs(Head(objs)) \o FindRefsOfAll(Tail(objs))

\* parseReferences(content): content is empty, or yaml.load throws on it, or gives
\* null, or gives the object data
ParseReferencesOf(content) ==
    IF content.kind \in {"empty", "unparseable", "null"} THEN Return(<<>>)
    ELSE Return(FindRefs(content.data))

ParseReferences(content) ==
    /\ io' = [call |-> "parseReferences", args |-> <<content>>,
              result |-> ParseReferencesOf(content)]
    /\ UNCHANGED <<file, graph, built, outcome, backup, hist, procs>>

-----------------------------------------------------------------------------
(* CrossRepoHandler.addReference *)

\* the line break
LF == "\n"

\* lines.join(sep)
RECURSIVE Join(_, _)
Join(lines, sep) ==
    IF lines = <<>> THEN <<>>
    ELSE IF Len(lines) = 1 THEN lines[1]
    ELSE lines[1] \o <<sep>> \o Join(Tail(lines), sep)

\* s.split(sep)
RECURSIVE Split(_, _)
Split(s, sep) ==
    LET k == IndexOf(s, sep)
    IN IF k = 0 THEN <<s>>
       ELSE <<SubSeq(s, 1, k - 1)>> \o Split(SubSeq(s, k + 1, Len(s)), sep)

\* s.includes(sub)
Includes(s, sub) ==
    \E i \in 1..(Len(s) - Len(sub) + 1) : SubSeq(s, i, i + Len(sub) - 1) = sub

\* `${issue}`: the decimal digits of a number
DigitOf == [d \in {DigitValue[c] : c \in Digits} |-> CHOOSE c \in Digits : DigitValue[c] = d]
RECURSIVE DigitsOf(_)
DigitsOf(n) ==
    IF n < 10 THEN <<DigitOf[n]>> ELSE DigitsOf(n \div 10) \o <<DigitOf[n % 10]>>

\* '## Related Issues\n' and `- ${repo}#${issue}`
RelatedIssues == "## Related Issues"
ReferenceSection == <<RelatedIssues, LF>>
ReferenceLine(repo, issue) == <<"- ", repo, "#">> \o DigitsOf(issue)

\* the pieces that begin with '##'
Headings == {RelatedIssues, "## Notes"}

\* line.startsWith('- '), line.startsWith('##')
StartsWithDash(line) == Len(line) > 0 /\ line[1] = "- "
StartsWithHashes(line) == Len(line) > 0 /\ line[1] \in Headings

\* for (let i = sectionIndex + 1; i < lines.length; i++) ...: lastReferenceIndex
RECURSIVE LastReferenceIndex(_, _, _)
LastReferenceIndex(lines, i, lastReferenceIndex) ==
    IF i > Len(lines) THEN lastReferenceIndex
    ELSE IF StartsWithDash(lines[i]) THEN LastReferenceIndex(lines, i + 1, i)
    ELSE IF StartsWithHashes(lines[i]) THEN lastReferenceIndex
    ELSE LastReferenceIndex(lines, i + 1, lastReferenceIndex)

\* addReference(body, repo, issue); indexes are 1-based, findIndex's -1 is 0
AddReferenceOf(body, repo, issue) ==
    LET reference == ReferenceLine(repo, issue)
        lines == Split(body, LF)
        sectionIndex == IndexOf(lines, <<RelatedIssues>>)
        last == LastReferenceIndex(lines, sectionIndex + 1, sectionIndex)
    IN IF Includes(body, ReferenceSection)
       THEN IF ~Includes(body, reference)
            THEN Join(SubSeq(lines, 1, last) \o <<reference>>
                        \o SubSeq(lines, last + 1, Len(lines)), LF)
            ELSE body
       ELSE body \o <<LF, LF>> \o ReferenceSection \o reference \o <<LF>>

AddReference(body, repo, issue) ==
    /\ io' = [call |-> "addReference", args |-> <<body, repo, issue>>,
              result |-> AddReferenceOf(body, repo, issue)]
    /\ UNCHANGED <<file, graph, built, outcome, backup, hist, procs>>

-----------------------------------------------------------------------------
(* GitHubManager and CrossRepoHandler: the calls to the remote issue tracker. *)
(* log is the sequence of requests sent to octokit so far in the operation;   *)
(* answers[k] tells whether the k-th request of the operation succeeds.       *)

\* this.repo of the GitHubManager
ThisRepo == "trade-manager"

\* await this.octokit.issues.get / update ({owner, repo, issue_number, ...})
Request(log, answers, op, repo, issue, payload) ==
    Append(log, [op |-> op, repo |-> repo, issue |-> issue, payload |-> payload,
                 ok |-> answers[Len(log) + 1]])

\* whether the request sent last was rejected
Rejected(log) == ~log[Len(log)].ok

\* getLabelsForStatus(status): statusLabels[status] || []
StatusLabels == {"in-progress", "blocked", "ready", "review", "completed"}
GetLabelsForStatus(status) == IF status \in StatusLabels THEN <<status>> ELSE <<>>

\* { state: status === 'completed' ? 'closed' : 'open', labels }
IssueUpdates(status) ==
    [state |-> IF status = "completed" THEN "closed" ELSE "open",
     labels |-> GetLabelsForStatus(status)]

\* GitHubManager.updateIssue(issueNumber, updates): logs and rethrows a failure
UpdateIssue(log, answers, issueNumber, updates) ==
    LET sent == Request(log, answers, "update", ThisRepo, issueNumber, updates)
    IN [log |-> sent, threw |-> Rejected(sent)]

\* syncTaskStatus(task): github_issue is 0 when the task has none
SyncTaskStatusOf(task, answers) ==
    IF task.github_issue = 0 THEN [log |-> <<>>, threw |-> FALSE]
    ELSE UpdateIssue(<<>>, answers, task.github_issue, IssueUpdates(task.status))

\* validateReferences(references): false at the first issue that cannot be fetched
RECURSIVE ValidateReferences(_, _, _)
ValidateReferences(log, answers, references) ==
    IF references = <<>> THEN [log |-> log, value |-> TRUE]
    ELSE LET ref == Head(references)
             sent == Request(log, answers, "get", ref.repo, ref.issue, <<>>)
         IN IF Rejected(sent) THEN [log |-> sent, value |-> FALSE]
            ELSE ValidateReferences(sent, answers, Tail(references))

\* updateReferences(sourceRepo, sourceIssue, references): each reference in its own
\* try / catch; body is issue.data.body || ''
RECURSIVE UpdateReferencesOf(_, _, _, _, _, _)
UpdateReferencesOf(log, answers, body, sourceRepo, sourceIssue, references) ==
    IF references = <<>> THEN log
    ELSE LET ref == Head(references)
             got == Request(log, answers, "get", ref.repo, ref.issue, <<>>)
             sent == Request(got, answers, "update", ref.repo, ref.issue,
                             [body |-> AddReferenceOf(body, sourceRepo, sourceIssue)])
         IN UpdateReferencesOf(IF Rejected(got) THEN got ELSE sent,
                               answers, body, sourceRepo, sourceIssue, Tail(references))

\* updateIssueFromYaml(repo, issueNumber, yamlData)
UpdateIssueFromYamlOf(repo, issueNumber, yamlData, answers, body) ==
    LET updated == UpdateIssue(<<>>, answers, issueNumber, IssueUpdates(yamlData.status))
        references == ParseReferencesOf(yamlData.content).value
        isValid == ValidateReferences(updated.log, answers, references)
    IN IF updated.threw THEN updated
       ELSE IF Len(references) = 0 THEN [log |-> updated.log, threw |-> FALSE]
       ELSE IF isValid.value
            THEN [log |-> UpdateReferencesOf(isValid.log, answers, body, repo,
                                             issueNumber, references),
                  threw |-> FALSE]
            ELSE [log |-> isValid.log, threw |-> FALSE]

\* what the caller of a remote operation observes
Observed(call, args, done) ==
    /\ io' = [call |-> call, args |-> args,
              result |-> [log |-> done.log, threw |-> done.threw]]
    /\ outcome' = IF done.threw THEN "error" ELSE "ok"
    /\ UNCHANGED <<file, graph, built, backup, hist, procs>>

SyncTaskStatus(task, answers) ==
    Observed("syncTaskStatus", <<task>>, SyncTaskStatusOf(task, answers))

UpdateIssueFromYaml(repo, issueNumber, yamlData, answers, body) ==
    Observed("updateIssueFromYaml", <<repo, issueNumber, yamlData>>,
             UpdateIssueFromYamlOf(repo, issueNumber, yamlData, answers, body))

UpdateReferences(sourceRepo, sourceIssue, references, answers, body) ==
    Observed("updateReferences", <<sourceRepo, sourceIssue, references>>,
             [log |-> UpdateReferencesOf(<<>>, answers, body, sourceRepo, sourceIssue,
                                         references),
              threw |-> FALSE])

-----------------------------------------------------------------------------
(* validate-yaml: validateYamlFile and its checks.  data is what yaml.load    *)
(* gave: project_phase, tasks (id, title, status, dependencies,              *)
(* cross_repo_refs) and dependencies, the entries of the global map.         *)

\* status.schema.json: the enums
SchemaPhases == {"planning", "development", "testing", "deployment", "maintenance"}
SchemaStatuses == {"pending", "in_progress", "blocked", "completed"}

\* validate(data): the constraints of the schema on the fields of the model
SchemaValid(data) ==
    /\ data.project_phase \in SchemaPhases
    /\ \A i \in DOMAIN data.tasks :
          /\ Len(data.tasks[i].title) >= 1
          /\ data.tasks[i].status \in SchemaStatuses
          /\ \A r \in DOMAIN data.tasks[i].cross_repo_refs :
                data.tasks[i].cross_repo_refs[r].repo \in KnownRepos

\* new Set(data.tasks.map(task => task.id))
TaskIdSet(data) == {data.tasks[i].id : i \in DOMAIN data.tasks}

\* validateDependencyConsistency(data): throws at a dependency without a task
ValidateDependencyConsistency(data) ==
    IF \/ \E i \in DOMAIN data.tasks :
             \E d \in Range(data.tasks[i].dependencies) : d \notin TaskIdSet(data)
       \/ \E e \in DOMAIN data.dependencies :
             \/ ParseInt(data.dependencies[e].taskId) \notin TaskIdSet(data)
             \/ \E d \in Range(data.dependencies[e].deps) : d \notin TaskIdSet(data)
    THEN Throw ELSE Return(TRUE)

\* validateCrossRepoRefs(data): throws at an unknown repository or an issue <= 0
ValidateCrossRepoRefs(data) ==
    IF \E i \in DOMAIN data.tasks : \E r \in DOMAIN data.tasks[i].cross_repo_refs :
          \/ data.tasks[i].cross_repo_refs[r].repo \notin KnownRepos
          \/ data.tasks[i].cross_repo_refs[r].issue <= 0
    THEN Throw ELSE Return(TRUE)

\* validateTaskIds(data): throws at an id seen before
ValidateTaskIds(data) ==
    IF \E i, j \in DOMAIN data.tasks : i < j /\ data.tasks[i].id = data.tasks[j].id
    THEN Throw ELSE Return(TRUE)

\* process.exit(1); return true
Exit1 == [returned |-> FALSE, exitCode |-> 1]
Valid == [returned |-> TRUE, exitCode |-> 0]

\* validateYamlFile(filePath) on a file holding data
ValidateYamlFileOf(data) ==
    IF ~SchemaValid(data) THEN Exit1
    ELSE IF \/ ValidateDependencyConsistency(data).threw
            \/ ValidateCrossRepoRefs(data).threw
            \/ ValidateTaskIds(data).threw
         THEN Exit1
         ELSE Valid

ValidateYamlFile(data) ==
    /\ io' = [call |-> "validateYamlFile", args |-> <<data>>,
              result |-> ValidateYamlFileOf(data)]
    /\ outcome' = IF ValidateYamlFileOf(data).returned THEN "ok" ELSE "error"
    /\ UNCHANGED <<file, graph, built, backup, hist, procs>>

-----------------------------------------------------------------------------
(* Inputs *)

\* dependency arrays of at most MaxDeps ids
DepLists == UNION {[1..n -> CallIds] : n \in 0..MaxDeps}

\* those listing ids in ascending order without repetition
DepSets == {d \in DepLists : \A i, j \in DOMAIN d : i < j => d[i] < d[j]}

\* those naming tasks only
TaskDepLists == {d \in DepLists : Range(d) \subseteq TaskIds}

Repositories == {"trade-manager", "trade-dashboard"}
Milestones == {"alpha", "beta"}
Statuses == {"ready", "in_progress", "blocked", "completed"}

GraphUpdates ==
    {[dependencies |-> d] : d \in DepSets} \cup {[status |-> s] : s \in {"ready", "completed"}}

\* dependency edits among the tasks themselves
DepUpdates == {[dependencies |-> d] : d \in DepSets \cap TaskDepLists}

RepoUpdates ==
    {[dependencies |-> d] : d \in TaskDepLists} \cup {[repository |-> r] : r \in Repositories}

MilestoneUpdates ==
    {[milestone |-> m] : m \in Milestones} \cup {[status |-> s] : s \in Statuses}

-----------------------------------------------------------------------------
(* Specifications.  The caller edits the status file through the YamlManager, *)
(* builds the graph, and from then on changes tasks through the DAGManager.   *)

\* dependency structure and completion
EditGraph == ~built.done /\ \E id \in CallIds, u \in GraphUpdates : UpdateTask(id, u)
SetStatus == \E id \in CallIds, s \in {"ready", "completed"} : UpdateTaskStatus(id, s)
Next == EditGraph \/ BuildGraph \/ SetStatus
Spec == Init /\ [][Next]_vars

\* dependency structure alone
EditDeps == ~built.done /\ \E id \in TaskIds, u \in DepUpdates : UpdateTask(id, u)
NextDeps == EditDeps \/ BuildGraph
SpecDeps == Init /\ [][NextDeps]_vars

\* repositories and dependency arrays
EditRepo == ~built.done /\ \E id \in TaskIds, u \in RepoUpdates : UpdateTask(id, u)
NextRepo == EditRepo \/ BuildGraph
SpecRepo == Init /\ [][NextRepo]_vars

\* milestones and statuses
EditMilestone == ~built.done /\ \E id \in TaskIds, u \in MilestoneUpdates : UpdateTask(id, u)
SetAnyStatus == \E id \in TaskIds, s \in Statuses : UpdateTaskStatus(id, s)
NextMilestone == EditMilestone \/ BuildGraph \/ SetAnyStatus
SpecMilestone == Init /\ [][NextMilestone]_vars

\* complexities and dependency structure
Complexities == {1, 2, 4}
ComplexityUpdates == {[complexity |-> c] : c \in Complexities} \cup DepUpdates
EditComplexity == ~built.done /\ \E id \in TaskIds, u \in ComplexityUpdates : UpdateTask(id, u)
NextComplexity == EditComplexity \/ BuildGraph
SpecComplexity == Init /\ [][NextComplexity]_vars

\* dependency structure and progress
ProgressUpdates ==
    DepUpdates \cup {[status |-> s] : s \in {"in_progress", "completed"}}
EditProgress == ~built.done /\ \E id \in TaskIds, u \in ProgressUpdates : UpdateTask(id, u)
NextProgress == EditProgress \/ BuildGraph
SpecProgress == Init /\ [][NextProgress]_vars

\* statuses alone, for ids with and without a task, before and after buildGraph()
StatusUpdates == {[status |-> s] : s \in {"ready", "in_progress", "completed"}}
EditStatus == \E id \in CallIds, u \in StatusUpdates : UpdateTask(id, u)
SetStatusOf == \E id \in CallIds, u \in StatusUpdates : UpdateTaskStatus(id, u.status)
NextStatus == EditStatus \/ BuildGraph \/ SetStatusOf
SpecStatus == Init /\ [][NextStatus]_vars

\* the status store and its backup
StoreUpdates == {[status |-> s] : s \in {"ready", "completed"}}
EditStore == \E id \in TaskIds, u \in StoreUpdates : UpdateTask(id, u)
EditStoreDeps == \E d \in {<<>>, <<2>>} : UpdateTaskDependencies(1, d, <<>>)
NextStore == EditStore \/ EditStoreDeps \/ CreateBackup \/ RestoreFromBackup
SpecStore == Init /\ [][NextStore]_vars

\* two processes, each updating the status of a task the other does not update
RaceUpdates == {[status |-> s] : s \in {"in_progress", "completed"}}
StartUpdate ==
    \E p \in Processes, id \in TaskIds, u \in RaceUpdates :
        /\ \A q \in Processes \ {p} : procs[q].taskId # id
        /\ ReadStatus(p, id, u)
FinishUpdate == \E p \in Processes : WriteStatus(p)
NextRace == StartUpdate \/ FinishUpdate
SpecRace == Init /\ [][NextRace]_vars

\* the contents parseReferences is given
MaxRefLen == 3
Pieces == {"trade-manager", "market-analysis", "invalid-repo", ":", "0", "1", "abc"}
Strings == UNION {[1..n -> Pieces] : n \in 0..MaxRefLen}
NoReference == [type |-> "undefined", chars |-> <<>>]
ReferenceValues ==
    {NoReference, [type |-> "number", chars |-> <<>>]}
    \cup {[type |-> "string", chars |-> s] : s \in Strings}
\* a valid reference, a zero issue, an unknown repository, a non-numeric issue, no colon
SomeReferences ==
    {NoReference}
    \cup {[type |-> "string", chars |-> s] :
            s \in {<<"trade-manager", ":", "1", "2">>, <<"market-analysis", ":", "0">>,
                   <<"invalid-repo", ":", "1">>, <<"market-analysis", ":", "abc">>,
                   <<"trade-manager">>}}
Leaf(r) == [reference |-> r, children |-> <<>>]
Objects ==
    {Leaf(r) : r \in ReferenceValues}
    \cup {[reference |-> r, children |-> <<Leaf(a), Leaf(b)>>] : r, a, b \in SomeReferences}
    \cup {[reference |-> NoReference,
           children |-> <<[reference |-> a, children |-> <<Leaf(b)>>], Leaf(c)>>] :
              a, b, c \in SomeReferences}
Contents ==
    {[kind |-> k, data |-> Leaf(NoReference)] : k \in {"empty", "unparseable", "null"}}
    \cup {[kind |-> "object", data |-> d] : d \in Objects}
Parse == \E content \in Contents : ParseReferences(content)
NextParse == Parse
SpecParse == Init /\ [][NextParse]_vars

\* the issue bodies addReference is given: at most MaxLines lines
MaxLines == 4
BodyLines ==
    {<<RelatedIssues>>, <<"## Notes">>, <<"Some text">>, <<>>,
     <<"- ", "trade-manager", "#", "1">>, <<"- ", "trade-manager", "#", "1", "2">>,
     <<"- ", "market-analysis", "#", "1">>}
Bodies == {Join(lines, LF) : lines \in UNION {[1..n -> BodyLines] : n \in 0..MaxLines}}
Issues == {1, 12}
\* a reference is added to a body, and added again to the body that gave
AddToBody ==
    /\ io = NoCall
    /\ \E body \in Bodies, repo \in {"trade-manager", "market-analysis"}, issue \in Issues :
          AddReference(body, repo, issue)
AddAgain ==
    /\ io.call = "addReference"
    /\ AddReference(io.result, io.args[2], io.args[3])
NextBody == AddToBody \/ AddAgain
SpecBody == Init /\ [][NextBody]_vars

\* remote synchronization: at most MaxRefs references an operation
MaxRefs == 2
MaxCalls == 1 + 3 * MaxRefs
Answers == [1..MaxCalls -> BOOLEAN]
Refs == {[repo |-> "trade-manager", issue |-> 12], [repo |-> "market-analysis", issue |-> 1]}
RefLists == UNION {[1..n -> Refs] : n \in 0..MaxRefs}
RemoteBodies == {<<>>, Join(<<<<RelatedIssues>>, <<"- ", "trade-manager", "#", "1">>>>, LF)}
SyncedTasks ==
    {[id |-> 1, github_issue |-> n, status |-> s] :
        n \in {0, 1, 2}, s \in {"ready", "in-progress", "in_progress", "completed"}}
\* yamlData is the text of a status file (it has no status property), or an object:
\* yaml.load reads String(yamlData), '[object Object]', a sequence without references
YamlTexts ==
    {[kind |-> "empty", data |-> Leaf(NoReference)]}
    \cup {[kind |-> "object", data |-> [reference |-> NoReference, children |-> c]] :
            c \in {<<Leaf([type |-> "string", chars |-> <<"trade-manager", ":", "1", "2">>])>>,
                   <<Leaf([type |-> "string", chars |-> <<"trade-manager", ":", "1", "2">>]),
                     Leaf([type |-> "string", chars |-> <<"market-analysis", ":", "1">>])>>}}
YamlData ==
    {[status |-> Undefined, content |-> c] : c \in YamlTexts}
    \cup {[status |-> s, content |-> [kind |-> "object", data |-> Leaf(NoReference)]] :
            s \in {"in_progress", "completed"}}
SyncStatus ==
    /\ io = NoCall
    /\ \E task \in SyncedTasks, answers \in Answers : SyncTaskStatus(task, answers)
UpdateFromYaml ==
    /\ io = NoCall
    /\ \E yamlData \in YamlData, answers \in Answers, body \in RemoteBodies :
          UpdateIssueFromYaml("trade-manager", 1, yamlData, answers, body)
UpdateRefs ==
    /\ io = NoCall
    /\ \E references \in RefLists, answers \in Answers, body \in RemoteBodies :
          UpdateReferences("trade-manager", 1, references, answers, body)
NextRemote == SyncStatus \/ UpdateFromYaml \/ UpdateRefs
SpecRemote == Init /\ [][NextRemote]_vars

\* the status files validateYamlFile is given: at most MaxValidated tasks
MaxValidated == 2
CrossRepoRefs ==
    {<<>>, <<[repo |-> "trade-dashboard", issue |-> 1]>>,
     <<[repo |-> "invalid-repo", issue |-> 1]>>, <<[repo |-> "market-analysis", issue |-> 0]>>}
ValidatedTasks ==
    {[id |-> id, title |-> "Task", status |-> s, dependencies |-> d, cross_repo_refs |-> r] :
        id \in 1..MaxValidated, s \in {"pending", "completed"},
        d \in {<<>>, <<1>>, <<2>>, <<3>>}, r \in CrossRepoRefs}
GlobalDependencies ==
    {<<>>, <<[taskId |-> "1", deps |-> <<2>>]>>, <<[taskId |-> "3", deps |-> <<>>]>>}
StatusFiles ==
    {[project_phase |-> ph, tasks |-> t, dependencies |-> g] :
        ph \in {"development", "invalid_phase"},
        t \in UNION {[1..n -> ValidatedTasks] : n \in 1..MaxValidated},
        g \in GlobalDependencies}
Validate == io = NoCall /\ \E data \in StatusFiles : ValidateYamlFile(data)
NextValidate == Validate
SpecValidate == Init /\ [][NextValidate]_vars

\* statuses inside and outside the enums, written through updateTask before buildGraph()
WrittenStatuses == Statuses \cup {"pending", "done"}
EditSchema ==
    ~built.done /\ \E id \in TaskIds, s \in WrittenStatuses : UpdateTask(id, [status |-> s])
NextSchema == EditSchema \/ BuildGraph
SpecSchema == Init /\ [][NextSchema]_vars

\* updates of any field, the id included, and dependency updates
IdUpdates ==
    {[status |-> "completed"]} \cup {[id |-> n] : n \in TaskIds}
    \cup {[id |-> n, status |-> "in_progress"] : n \in TaskIds}
IdDependencies == {<<>>, <<1>>}
EditIds == \E taskId \in CallIds, u \in IdUpdates : UpdateTask(taskId, u)
EditIdDeps ==
    \E taskId \in CallIds, d \in IdDependencies : UpdateTaskDependencies(taskId, d, <<>>)
NextIds == EditIds \/ EditIdDeps
SpecIds == Init /\ [][NextIds]_vars

\* updateTaskStatus called up to MaxConcurrent times for one task without awaiting
MaxConcurrent == 3
IssueUpdate ==
    \E taskId \in CallIds, status \in {"in_progress", "completed", "ready"} :
        /\ Len(IssuedCalls) < MaxConcurrent
        /\ io = NoCall \/ (io.call = "updateTaskStatus" /\ io.args[1] = taskId)
        /\ IssueUpdateTaskStatus(taskId, status)
ResumeUpdate == ResumeUpdateTaskStatus
NextConcurrent == IssueUpdate \/ ResumeUpdate
SpecConcurrent == Init /\ [][NextConcurrent]_vars

\* the caller's loop: once the graph is built, a task getAvailableTasks() returns is
\* marked completed through updateTaskStatus, which rebuilds the graph
EditWork == ~built.done /\ \E id \in TaskIds, u \in DepUpdates : UpdateTask(id, u)
CompleteAvailable ==
    /\ built.done
    /\ ~GetAvailableTasks(graph).threw
    /\ \E i \in DOMAIN GetAvailableTasks(graph).value :
          UpdateTaskStatus(GetAvailableTasks(graph).value[i].id, "completed")
NextWork == EditWork \/ BuildGraph \/ CompleteAvailable
\* the caller keeps going while some task is available: weak fairness of
\* CompleteAvailable, its enabling condition written out
CanComplete ==
    built.done /\ ~GetAvailableTasks(graph).threw /\ GetAvailableTasks(graph).value # <<>>
KeepsCompleting == []<>(~CanComplete) \/ []<><<CompleteAvailable>>_vars
SpecWork == Init /\ [][NextWork]_vars /\ KeepsCompleting

\* decomposition: at most MaxSubtasks subtasks a call, at most MaxCreated tasks created
MaxSubtasks == 2
MaxCreated == 4
Subtasks == {[title |-> t] : t \in {"Define API endpoints", "Add unit tests"}}
SubtaskLists == UNION {[1..n -> Subtasks] : n \in 1..MaxSubtasks}
ParentIds == 1..(NumTasks + MaxCreated) \cup {MissingId}
Decompose ==
    \E parentTaskId \in ParentIds, subtasks \in SubtaskLists :
        /\ Len(file) + Len(subtasks) <= NumTasks + MaxCreated
        /\ CreateSubtasks(parentTaskId, subtasks)
NextSubtasks == Decompose
SpecSubtasks == Init /\ [][NextSubtasks]_vars

\* the options getRecommendedTasks is called with; {} is the record without the three
NoOptions == [unset |-> TRUE]
RecommendOptions ==
    {NoOptions}
    \cup {[limit |-> n] : n \in 0..NumTasks}
    \cup {[repository |-> r] : r \in Repositories \cup {RepoPath}}
    \cup {[milestone |-> m] : m \in Milestones}
    \cup {[repository |-> RepoPath, limit |-> n] : n \in 0..NumTasks}

-----------------------------------------------------------------------------
(* Reference notions the properties are stated with: the dependency relation *)
(* of the snapshot the graph was built from                                  *)

\* d -> t for every d listed in the dependencies of task t
DepEdges(tasks) ==
    UNION {{<<d, tasks[i].id>> : d \in Range(tasks[i].dependencies)} : i \in DOMAIN tasks}

RECURSIVE Closure(_, _)
Closure(E, S) ==
    LET N == S \cup {e[2] : e \in {x \in E : x[1] \in S}}
    IN IF N = S THEN S ELSE Closure(E, N)

\* the ids reached from n by one or more edges
Descendants(E, n) == Closure(E, {e[2] : e \in {x \in E : x[1] = n}})

Acyclic(E) == \A e \in E : e[1] \notin Descendants(E, e[1])

IdsOf(tasks) == {tasks[i].id : i \in DOMAIN tasks}
TaskById(tasks, id) == tasks[CHOOSE i \in DOMAIN tasks : tasks[i].id = id]

\* a dependency id that is the id of no task
Dangling(tasks) == {e \in DepEdges(tasks) : e[1] \notin IdsOf(tasks)}

\* the elements of a sequence are pairwise different
NoDuplicates(s) == \A i, j \in DOMAIN s : i # j => s[i] # s[j]

-----------------------------------------------------------------------------
(* C1: after buildGraph(), a task of the snapshot is in getAvailableTasks()  *)
(* if and only if it is not completed and every dependency it lists is a     *)
(* completed task.                                                           *)

ReadyToStart(tasks, t) ==
    /\ t.status # "completed"
    /\ \A d \in Range(t.dependencies) :
          d \in IdsOf(tasks) /\ TaskById(tasks, d).status = "completed"

C1_AvailableIffDepsCompleted ==
    built.done =>
        LET r == GetAvailableTasks(graph)
        IN /\ ~r.threw
           /\ \A i \in DOMAIN built.tasks :
                 built.tasks[i] \in Range(r.value) <=> ReadyToStart(built.tasks, built.tasks[i])

\* what the code does: the rule holds on every snapshot without a dangling
\* dependency id, and the call throws on every snapshot with one
C1_CodeBehaviour ==
    built.done =>
        LET r == GetAvailableTasks(graph)
        IN /\ r.threw <=> Dangling(built.tasks) # {}
           /\ ~r.threw =>
                 \A i \in DOMAIN built.tasks :
                    built.tasks[i] \in Range(r.value)
                        <=> ReadyToStart(built.tasks, built.tasks[i])

-----------------------------------------------------------------------------
(* C2: for an acyclic dependency relation findCycles() is empty, hasCycles() *)
(* is false and validateDependencies() reports hasCycles false.              *)

C2_AcyclicHasNoCycles ==
    (built.done /\ Acyclic(DepEdges(built.tasks))) =>
        /\ FindCycles(graph) = <<>>
        /\ ~HasCycles(graph)
        /\ ~ValidateDependencies(graph).threw
        /\ ~ValidateDependencies(graph).value.hasCycles

\* what the code does: the two cycle queries are right, the report is not produced
\* when a dependency id dangles
C2_CodeBehaviour ==
    (built.done /\ Acyclic(DepEdges(built.tasks))) =>
        /\ FindCycles(graph) = <<>>
        /\ ~HasCycles(graph)
        /\ ValidateDependencies(graph).threw <=> Dangling(built.tasks) # {}
        /\ ~ValidateDependencies(graph).threw => ~ValidateDependencies(graph).value.hasCycles

-----------------------------------------------------------------------------
(* C3: when two tasks A and B depend on each other, hasCycles() is true and  *)
(* findCycles() lists a cycle that contains both A and B, whatever else the  *)
(* task set contains.                                                        *)

\* the pairs (A, B) of different ids with A -> B and B -> A
MutualPairs(E) == {p \in E : p[1] # p[2] /\ <<p[2], p[1]>> \in E}

ListsCycleWith(cycles, a, b) ==
    \E k \in DOMAIN cycles : {Str(a), Str(b)} \subseteq Range(cycles[k])

OnCycle(E) == {e[1] : e \in {x \in E : x[1] \in Descendants(E, x[1])}}

\* A -> B -> A is the only cycle: no other task lies on a cycle, neither depends on itself
OnlyCycle(E, onCycle, a, b) ==
    /\ onCycle \subseteq {a, b}
    /\ <<a, a>> \notin E
    /\ <<b, b>> \notin E

-----------------------------------------------------------------------------
(* C4: a dependency id d of task t that is the id of no task appears in      *)
(* validateDependencies().missingDependencies as {taskId: t,                 *)
(* missingDependency: d}, and the report's valid flag is false.              *)

C4_DanglingDependencyReported ==
    built.done =>
        \A e \in Dangling(built.tasks) :
            LET r == ValidateDependencies(graph)
            IN /\ ~r.threw
               /\ [taskId |-> e[2], missingDependency |-> e[1]]
                      \in Range(r.value.missingDependencies)
               /\ ~r.value.valid

-----------------------------------------------------------------------------
(* C5: getAffectedTasks(id) returns exactly the tasks reached from id by one *)
(* or more dependency edges, each once, and never the task id itself.        *)

AffectedIds(g, id) == {ParseInt(k) : k \in Range(AffectedKeys(g, id))}

C5_AffectedIsForwardClosure ==
    built.done =>
        \A id \in IdsOf(built.tasks) :
            /\ NoDuplicates(AffectedKeys(graph, id))
            /\ AffectedIds(graph, id) = Descendants(DepEdges(built.tasks), id)
            /\ id \notin AffectedIds(graph, id)

(* C5, amended: getAffectedTasks(id) returns exactly the tasks other than id *)
(* that are reached from id by one or more dependency edges, each once, as   *)
(* the record the graph holds of it; for the chain 1 -> 2 -> 3 it returns    *)
(* {2, 3}.                                                                   *)
C5_AffectedIsForwardClosureWithoutOrigin ==
    built.done =>
        LET E == DepEdges(built.tasks)
        IN \A id \in IdsOf(built.tasks) :
              LET keys == AffectedKeys(graph, id)
                  tasks == GetAffectedTasks(graph, id)
              IN /\ NoDuplicates(keys)
                 /\ {ParseInt(k) : k \in Range(keys)} = Descendants(E, id) \ {id}
                 /\ \A i \in DOMAIN tasks :
                       tasks[i] = TaskById(built.tasks, ParseInt(keys[i]))

Chain123(tasks) ==
    /\ Len(tasks) >= 3
    /\ tasks[1].dependencies = <<>>
    /\ tasks[2].dependencies = <<1>>
    /\ tasks[3].dependencies = <<2>>

C5_Witness ==
    /\ built.done
    /\ Chain123(built.tasks)
    /\ AffectedIds(graph, 1) = {2, 3}

-----------------------------------------------------------------------------
(* C6: in every report validateDependencies() returns, valid is true if and  *)
(* only if hasCycles is false, unreachableTasks is empty and                 *)
(* missingDependencies is empty.                                             *)

C6_ValidIffAllChecksPass ==
    built.done =>
        LET r == ValidateDependencies(graph)
        IN r.threw \/
              (r.value.valid <=>
                  /\ ~r.value.hasCycles
                  /\ r.value.unreachableTasks = <<>>
                  /\ r.value.missingDependencies = <<>>)

\* a cycle below a root: the cycle check alone makes the report invalid
C6_Witness ==
    /\ built.done
    /\ ~ValidateDependencies(graph).threw
    /\ ValidateDependencies(graph).value.hasCycles
    /\ ValidateDependencies(graph).value.unreachableTasks = <<>>
    /\ ~ValidateDependencies(graph).value.valid

-----------------------------------------------------------------------------
(* C7: for every snapshot buildGraph() accepts, with cycles, self            *)
(* dependencies or dangling dependency ids, validateDependencies() and       *)
(* getAvailableTasks() return a result and do not throw.                     *)

C7_ViolationsReturnedAsData ==
    built.done =>
        /\ ~ValidateDependencies(graph).threw
        /\ ~GetAvailableTasks(graph).threw

\* what the code does: both throw exactly when a dependency id dangles
C7_CodeBehaviour ==
    built.done =>
        /\ ValidateDependencies(graph).threw <=> Dangling(built.tasks) # {}
        /\ GetAvailableTasks(graph).threw <=> Dangling(built.tasks) # {}

-----------------------------------------------------------------------------
(* C8: after buildGraph() the graph has exactly one node per task of the     *)
(* snapshot and none for any other id, each node carries the task's full     *)
(* record, milestone and complexity included, and there is an edge d -> t    *)
(* exactly when d is listed in the dependencies of task t.                   *)

CarriesRecord(label, task) ==
    /\ ~IsUndefined(label)
    /\ label.id = task.id
    /\ label.status = task.status
    /\ label.dependencies = task.dependencies
    /\ task.repository # Undefined => label.repository = task.repository
    /\ task.milestone # Undefined =>
          "milestone" \in DOMAIN label /\ label.milestone = task.milestone
    /\ task.complexity # NoComplexity =>
          "complexity" \in DOMAIN label /\ label.complexity = task.complexity

C8_GraphMirrorsSnapshot ==
    built.done =>
        /\ graph.nodes = {Str(id) : id \in IdsOf(built.data)}
        /\ \A i \in DOMAIN built.data :
              CarriesRecord(Node(graph, Str(built.data[i].id)), built.data[i])
        /\ graph.edges = {<<Str(e[1]), Str(e[2])>> : e \in DepEdges(built.data)}

\* what the code does: a node for every task and for every dangling dependency id,
\* the tasks labelled with the record getAllTasks() made, the edges as listed
C8_CodeBehaviour ==
    built.done =>
        /\ graph.nodes = {Str(id) : id \in IdsOf(built.data)}
                            \cup {Str(e[1]) : e \in Dangling(built.data)}
        /\ \A i \in DOMAIN built.tasks :
              Node(graph, Str(built.tasks[i].id)) = built.tasks[i]
        /\ \A e \in Dangling(built.data) : IsUndefined(Node(graph, Str(e[1])))
        /\ graph.edges = {<<Str(e[1]), Str(e[2])>> : e \in DepEdges(built.data)}

-----------------------------------------------------------------------------
(* C9: getCrossRepoDependencies(id) returns exactly the direct dependencies  *)
(* of task id whose repository differs from its own, getCrossRepoDependents  *)
(* (id) exactly the direct successors whose repository differs, each such    *)
(* task once and no transitive ones.                                         *)

CrossRepoDependencyIds(tasks, id) ==
    {d \in Range(TaskById(tasks, id).dependencies) \cap IdsOf(tasks) :
        TaskById(tasks, d).repository # TaskById(tasks, id).repository}

CrossRepoDependentIds(tasks, id) ==
    {u \in IdsOf(tasks) :
        /\ id \in Range(TaskById(tasks, u).dependencies)
        /\ TaskById(tasks, u).repository # TaskById(tasks, id).repository}

C9_CrossRepoOneHopOnce ==
    built.done =>
        \A id \in IdsOf(built.tasks) :
            LET deps == GetCrossRepoDependencies(graph, id)
                dependents == GetCrossRepoDependents(graph, id)
            IN /\ ~deps.threw /\ ~dependents.threw
               /\ NoDuplicates(deps.value)
               /\ Range(deps.value) =
                     {TaskById(built.tasks, d) : d \in CrossRepoDependencyIds(built.tasks, id)}
               /\ NoDuplicates(dependents.value)
               /\ Range(dependents.value) =
                     {TaskById(built.tasks, u) : u \in CrossRepoDependentIds(built.tasks, id)}

\* what the code does: the same, but a dependency listed twice is returned twice
C9_CodeBehaviour ==
    built.done =>
        \A id \in IdsOf(built.tasks) :
            LET deps == GetCrossRepoDependencies(graph, id)
                dependents == GetCrossRepoDependents(graph, id)
                listed == SelectSeq(TaskById(built.tasks, id).dependencies,
                                    LAMBDA d : d \in CrossRepoDependencyIds(built.tasks, id))
            IN /\ ~deps.threw /\ ~dependents.threw
               /\ deps.value = [i \in DOMAIN listed |-> TaskById(built.tasks, listed[i])]
               /\ NoDuplicates(dependents.value)
               /\ Range(dependents.value) =
                     {TaskById(built.tasks, u) : u \in CrossRepoDependentIds(built.tasks, id)}

-----------------------------------------------------------------------------
(* C10: after buildGraph() getMilestoneStatus(m) reports total = the number  *)
(* of snapshot tasks with milestone m, completed / inProgress / blocked =    *)
(* the numbers of those with that status, percentComplete = completed /      *)
(* total x 100.                                                              *)

WithMilestone(data, m) == {i \in DOMAIN data : data[i].milestone = m}
WithStatus(data, m, status) == {i \in WithMilestone(data, m) : data[i].status = status}

C10_MilestoneStatusCounts ==
    built.done =>
        \A m \in Milestones :
            LET r == GetMilestoneStatus(graph, m)
                total == Cardinality(WithMilestone(built.data, m))
                completed == Cardinality(WithStatus(built.data, m, "completed"))
            IN /\ ~r.threw
               /\ r.value.total = total
               /\ r.value.completed = completed
               /\ r.value.inProgress = Cardinality(WithStatus(built.data, m, "in_progress"))
               /\ r.value.blocked = Cardinality(WithStatus(built.data, m, "blocked"))
               /\ total > 0 =>
                     r.value.percentComplete.num * total
                         = completed * 100 * r.value.percentComplete.den

\* what the code does: no node carries a milestone, so every count is 0
C10_CodeBehaviour ==
    built.done =>
        \A m \in Milestones :
            LET r == GetMilestoneStatus(graph, m)
            IN r.threw \/ (r.value.total = 0 /\ r.value.percentComplete.num = 0)

-----------------------------------------------------------------------------
(* C11: percentComplete is 0 when there is nothing to count:                 *)
(* getMilestoneStatus(m) when no task has milestone m, getProjectStatus()    *)
(* when the graph has no tasks; otherwise it is completed / total x 100 and  *)
(* lies between 0 and 100.                                                   *)

\* the fraction num / den is the number 0 (0 / 0, NaN, is not)
IsZero(p) == p.den # 0 /\ p.num = 0

\* the fraction num / den is completed / total x 100, between 0 and 100
IsPercentOf(p, completed, total) ==
    /\ p.den > 0
    /\ p.num * total = completed * 100 * p.den
    /\ 0 <= p.num /\ p.num <= 100 * p.den

C11_PercentCompleteDefined ==
    /\ \A m \in Milestones :
          LET r == GetMilestoneStatus(graph, m)
          IN /\ ~r.threw
             /\ r.value.total = 0 => IsZero(r.value.percentComplete)
             /\ r.value.total > 0 =>
                   IsPercentOf(r.value.percentComplete, r.value.completed, r.value.total)
    /\ LET r == GetProjectStatus(graph)
       IN /\ ~r.threw
          /\ r.value.totalTasks = 0 => IsZero(r.value.percentComplete)
          /\ r.value.totalTasks > 0 =>
                IsPercentOf(r.value.percentComplete, r.value.completedTasks,
                            r.value.totalTasks)

\* what the code does: the project percentage is 0 / 0 on the empty graph
C11_CodeBehaviour ==
    LET r == GetProjectStatus(graph)
    IN /\ ~r.threw
       /\ Nodes(graph) = <<>> => r.value.percentComplete = [num |-> 0, den |-> 0]
       /\ Nodes(graph) # <<>> =>
             IsPercentOf(r.value.percentComplete, r.value.completedTasks, r.value.totalTasks)

-----------------------------------------------------------------------------
(* C12: getRecommendedTasks(options) returns exactly the available tasks     *)
(* that match the milestone and repository filters, ordered by               *)
(* non-increasing priorityScore; with a limit n the result is the first n    *)
(* entries of that ordering, at most n entries, for every n including 0.     *)

\* the task of the snapshot matches the filters of the options
Matches(data, task, options) ==
    /\ "milestone" \in DOMAIN options =>
          TaskById(data, task.id).milestone = options.milestone
    /\ "repository" \in DOMAIN options => task.repository = options.repository

\* the options without the limit
Unlimited(options) == [f \in DOMAIN options \ {"limit"} |-> options[f]]

NonIncreasingScores(r) ==
    \A i, j \in DOMAIN r : i < j => ~HigherScore(r[j], r[i])

C12_RecommendedFilteredSortedLimited ==
    built.done =>
        \A options \in RecommendOptions :
            LET available == GetAvailableTasks(graph)
                r == GetRecommendedTasks(graph, options)
                all == GetRecommendedTasks(graph, Unlimited(options))
            IN ~available.threw =>
                 /\ ~r.threw
                 /\ "limit" \notin DOMAIN options =>
                       /\ {r.value[i].task : i \in DOMAIN r.value}
                            = {t \in Range(available.value) : Matches(built.data, t, options)}
                       /\ NoDuplicates([i \in DOMAIN r.value |-> r.value[i].task.id])
                       /\ NonIncreasingScores(r.value)
                 /\ "limit" \in DOMAIN options =>
                       /\ Len(r.value) <= options.limit
                       /\ r.value = SubSeq(all.value, 1, Len(r.value))
                       /\ Len(r.value) = options.limit \/ r.value = all.value

\* what the code does: a limit of 0 truncates nothing
C12_CodeBehaviour ==
    built.done =>
        \A options \in RecommendOptions :
            LET r == GetRecommendedTasks(graph, options)
                all == GetRecommendedTasks(graph, Unlimited(options))
            IN /\ r.threw = GetAvailableTasks(graph).threw
               /\ ~r.threw =>
                     /\ NonIncreasingScores(r.value)
                     /\ "limit" \in DOMAIN options /\ options.limit = 0 => r.value = all.value
                     /\ "limit" \in DOMAIN options /\ options.limit > 0 =>
                           /\ Len(r.value) <= options.limit
                           /\ r.value = SubSeq(all.value, 1, Len(r.value))

-----------------------------------------------------------------------------
(* C13: of two available tasks with equal downstream, cross-repo and         *)
(* milestone factors and complexities 1 and 4, getRecommendedTasks() gives   *)
(* the complexity-1 task the strictly higher priorityScore and lists it      *)
(* first.                                                                    *)

\* the position of task id in the recommendations, 0 when absent
Position(r, id) ==
    IF \E i \in DOMAIN r : r[i].task.id = id
    THEN CHOOSE i \in DOMAIN r : r[i].task.id = id
    ELSE 0

\* tasks a and b are available, of complexity 1 and 4, and equal in the other factors
EqualButComplexity(a, b) ==
    /\ a # b
    /\ TaskById(built.data, a).complexity = 1
    /\ TaskById(built.data, b).complexity = 4
    /\ TaskById(built.data, a).milestone = TaskById(built.data, b).milestone
    /\ {a, b} \subseteq {t.id : t \in Range(GetAvailableTasks(graph).value)}
    /\ Len(GetAllDownstreamTasks(graph, a)) = Len(GetAllDownstreamTasks(graph, b))
    /\ Len(GetCrossRepoDependencies(graph, a).value)
          + Len(GetCrossRepoDependents(graph, a).value)
       = Len(GetCrossRepoDependencies(graph, b).value)
          + Len(GetCrossRepoDependents(graph, b).value)

C13_LowerComplexityFirst ==
    built.done =>
        LET r == GetRecommendedTasks(graph, NoOptions)
        IN \A a, b \in TaskIds :
              EqualButComplexity(a, b) =>
                 /\ ~r.threw
                 /\ Position(r.value, a) > 0 /\ Position(r.value, b) > 0
                 /\ HigherScore(r.value[Position(r.value, a)], r.value[Position(r.value, b)])
                 /\ Position(r.value, a) < Position(r.value, b)

\* what the code does: the two scores are equal and the lower id is listed first
C13_CodeBehaviour ==
    built.done =>
        LET r == GetRecommendedTasks(graph, NoOptions)
        IN \A a, b \in TaskIds :
              EqualButComplexity(a, b) =>
                 /\ ~r.threw
                 /\ r.value[Position(r.value, a)].priorityScore
                       = r.value[Position(r.value, b)].priorityScore
                 /\ Position(r.value, a) < Position(r.value, b) <=> a < b

-----------------------------------------------------------------------------
(* C14: getCriticalPathTasks() returns one entry for every task of the       *)
(* graph, ordered by non-increasing totalDownstream; totalDownstream is the  *)
(* size of the task's transitive descendant set, directDependents the number *)
(* of its direct successors, blocksCompletedTasks / blocksInProgressTasks   *)
(* the numbers of descendants that are completed / in progress; hence        *)
(* directDependents <= totalDownstream and blocksCompletedTasks +            *)
(* blocksInProgressTasks <= totalDownstream.                                 *)

\* the descendants of id whose status is status
DescendantsWithStatus(tasks, E, id, status) ==
    {d \in Descendants(E, id) : d \in IdsOf(tasks) /\ TaskById(tasks, d).status = status}

\* the entries of r that are about task id
EntriesOf(r, id) == {i \in DOMAIN r : ~IsUndefined(r[i].task) /\ r[i].task.id = id}

C14_CriticalPathRanking ==
    built.done =>
        LET got == GetCriticalPathTasks(graph)
            r == got.value
            E == DepEdges(built.tasks)
        IN /\ ~got.threw
           /\ Len(r) = Cardinality(graph.nodes)
           /\ \A i, j \in DOMAIN r : i < j => r[i].totalDownstream >= r[j].totalDownstream
           /\ \A id \in IdsOf(built.tasks) :
                 /\ Cardinality(EntriesOf(r, id)) = 1
                 /\ \A i \in EntriesOf(r, id) :
                       /\ r[i].task = TaskById(built.tasks, id)
                       /\ r[i].totalDownstream = Cardinality(Descendants(E, id))
                       /\ r[i].directDependents = Cardinality({e \in E : e[1] = id})
                       /\ r[i].blocksCompletedTasks
                             = Cardinality(DescendantsWithStatus(built.tasks, E, id, "completed"))
                       /\ r[i].blocksInProgressTasks
                             = Cardinality(DescendantsWithStatus(built.tasks, E, id, "in_progress"))
           /\ \A i \in DOMAIN r :
                 /\ r[i].directDependents <= r[i].totalDownstream
                 /\ r[i].blocksCompletedTasks + r[i].blocksInProgressTasks
                       <= r[i].totalDownstream

\* the ranking reorders the tasks: the first entry is not task 1, it blocks a completed
\* and an in-progress task and reaches more tasks than it has direct successors
C14_Witness ==
    /\ built.done
    /\ LET r == GetCriticalPathTasks(graph).value
       IN /\ r[1].task.id # 1
          /\ r[1].blocksCompletedTasks > 0
          /\ r[1].blocksInProgressTasks > 0
          /\ r[1].directDependents < r[1].totalDownstream
          /\ r[1].totalDownstream > r[Len(r)].totalDownstream

-----------------------------------------------------------------------------
(* C15: updateTask(id, updates) and updateTaskStatus(id, status) for an id   *)
(* that no task of the snapshot has fail with an error, write nothing (the   *)
(* status file is unchanged) and leave the graph unchanged.                  *)

C15_MissingIdRejected ==
    [][\A id \in CallIds :
          (/\ FindTask(file, id) = 0
           /\ \/ \E u \in StatusUpdates : UpdateTask(id, u)
              \/ \E u \in StatusUpdates : UpdateTaskStatus(id, u.status))
          => (outcome' = "error" /\ file' = file /\ graph' = graph /\ built' = built)]_vars

\* a call for the missing id failed after tasks were changed and the graph was built
C15_Witness ==
    /\ outcome = "error"
    /\ built.done
    /\ graph = BuildGraphOf(GetAllTasks(file))
    /\ FindTask(file, MissingId) = 0
    /\ \E i \in DOMAIN file : file[i].status = "completed"

-----------------------------------------------------------------------------
(* C16: the backup is a single slot.  After any sequence of createBackup,    *)
(* updateTask / updateTaskDependencies and restoreFromBackup, a restore      *)
(* makes the status file equal to what it was at the most recent             *)
(* createBackup; the backup file holds that snapshot and no earlier one.     *)

C16_RestoreGivesLatestBackup ==
    /\ backup.exists => backup.data = hist.latest
    /\ hist.restored => file = hist.latest

\* a restore after a second backup that replaced a different first one, the file having
\* been changed since construction
C16_Witness ==
    /\ hist.restored
    /\ hist.overwritten
    /\ file # [i \in TaskIds |-> FileTask(i)]

-----------------------------------------------------------------------------
(* C17: two concurrent updates of different tasks of one status file are not *)
(* merged.  Each reads the whole snapshot and then writes the whole          *)
(* snapshot; the file ends as the last writer wrote it, and there is an      *)
(* interleaving after which it contains only one of the two updates.         *)

\* the update of process p is in the status file
Persisted(p) ==
    \A f \in DOMAIN procs[p].updates :
        file[FindTask(file, procs[p].taskId)][f] = procs[p].updates[f]

C17_LastWriterWins ==
    \A p, q \in Processes :
        (procs[p].pc = "done" /\ procs[q].pc = "done" /\ procs[p].order < procs[q].order) =>
            /\ file = Written(q)
            /\ procs[q].data = procs[p].data => ~Persisted(p)

\* both updates are over and the first writer's update is gone
C17_Witness ==
    \E p, q \in Processes :
        /\ procs[p].pc = "done" /\ procs[q].pc = "done"
        /\ procs[p].order < procs[q].order
        /\ procs[p].taskId # procs[q].taskId
        /\ Persisted(q)
        /\ ~Persisted(p)

-----------------------------------------------------------------------------
(* C18: parseReferences never raises; every entry it returns has a repo of   *)
(* the known set and an issue that is a positive integer; a malformed        *)
(* reference is dropped without preventing the extraction of the valid       *)
(* references elsewhere in the nested structure.                             *)

\* the reference reads repository:number with a known repository
WellFormed(reference) ==
    /\ reference.type = "string"
    /\ \E k \in DOMAIN reference.chars :
          /\ k = 2 /\ k < Len(reference.chars)
          /\ reference.chars[1] \in KnownRepos
          /\ reference.chars[k] = ":"
          /\ \A i \in (k + 1)..Len(reference.chars) : reference.chars[i] \in Digits

\* the references of obj and of the objects below it, in document order
RECURSIVE ReferencesIn(_)
RECURSIVE ReferencesInAll(_)
ReferencesIn(obj) == <<obj.reference>> \o ReferencesInAll(obj.children)
ReferencesInAll(objs) ==
    IF objs = <<>> THEN <<>> ELSE ReferencesIn(Head(objs)) \o ReferencesInAll(Tail(objs))

C18_ParsedReferencesValid ==
    io.call = "parseReferences" =>
        LET content == io.args[1]
            r == io.result
            valid == IF content.kind = "object"
                     THEN SelectSeq(ReferencesIn(content.data), WellFormed)
                     ELSE <<>>
        IN /\ ~r.threw
           /\ \A i \in DOMAIN r.value :
                 r.value[i].repo \in KnownRepos /\ r.value[i].issue > 0
           /\ Len(r.value) = Len(valid)
           /\ \A i \in DOMAIN r.value :
                 /\ r.value[i].repo = valid[i].chars[1]
                 /\ r.value[i].issue = ParseDigits(SubSeq(valid[i].chars, 3, Len(valid[i].chars)))

\* what the code does: every issue is a number of digits, 0 included
C18_CodeBehaviour ==
    io.call = "parseReferences" =>
        LET content == io.args[1]
            r == io.result
            valid == IF content.kind = "object"
                     THEN SelectSeq(ReferencesIn(content.data), WellFormed)
                     ELSE <<>>
        IN /\ ~r.threw
           /\ \A i \in DOMAIN r.value :
                 r.value[i].repo \in KnownRepos /\ r.value[i].issue >= 0
           /\ Len(r.value) = Len(valid)
           /\ \A i \in DOMAIN r.value :
                 /\ r.value[i].repo = valid[i].chars[1]
                 /\ r.value[i].issue = ParseDigits(SubSeq(valid[i].chars, 3, Len(valid[i].chars)))

-----------------------------------------------------------------------------
(* C19: addReference(body, repo, issue) appends the line '- repo#issue' to   *)
(* the 'Related Issues' section exactly when that reference is not already   *)
(* present, so that the result contains the line exactly once; applying it   *)
(* twice equals applying it once; every other line of the body keeps its     *)
(* content and its place among the others.                                   *)

\* the positions of the lines of s that are the line
Occurrences(s, line) == {i \in DOMAIN Split(s, LF) : Split(s, LF)[i] = line}

\* s without its lines at the places in drop
Without(lines, drop) ==
    LET keep(i) == Cardinality({j \in 1..i : j \notin drop})
        n == Len(lines) - Cardinality(drop)
    IN [p \in 1..n |-> lines[CHOOSE i \in DOMAIN lines : i \notin drop /\ keep(i) = p]]

\* the lines of s are lines of t, in the same order
RECURSIVE IsSubsequence(_, _)
IsSubsequence(s, t) ==
    IF s = <<>> THEN TRUE
    ELSE IF t = <<>> THEN FALSE
    ELSE IF Head(s) = Head(t) THEN IsSubsequence(Tail(s), Tail(t))
    ELSE IsSubsequence(s, Tail(t))

C19_ReferenceAddedOnce ==
    io.call = "addReference" =>
        LET body == io.args[1]
            line == ReferenceLine(io.args[2], io.args[3])
            r == io.result
        IN /\ Occurrences(body, line) # {} => r = body
           /\ Occurrences(body, line) = {} =>
                 /\ Cardinality(Occurrences(r, line)) = 1
                 /\ IsSubsequence(Split(body, LF), Without(Split(r, LF), Occurrences(r, line)))
           /\ AddReferenceOf(r, io.args[2], io.args[3]) = r

\* what the code does: nothing is added when the text of the reference occurs anywhere
\* in the body, be it inside a longer reference
C19_CodeBehaviour ==
    io.call = "addReference" =>
        LET body == io.args[1]
            line == ReferenceLine(io.args[2], io.args[3])
            r == io.result
        IN /\ (Includes(body, ReferenceSection) /\ Includes(body, line)) => r = body
           /\ ~(Includes(body, ReferenceSection) /\ Includes(body, line)) =>
                 /\ Cardinality(Occurrences(r, line)) = Cardinality(Occurrences(body, line)) + 1
                 /\ IsSubsequence(Split(body, LF), Split(r, LF))
           /\ AddReferenceOf(r, io.args[2], io.args[3]) = r

-----------------------------------------------------------------------------
(* C20: createSubtasks(parentId, subtasks) creates every subtask with        *)
(* parentTask = parentId and appends the new ids to the parent's subtasks:   *)
(* afterwards that list contains every id it held before the call and the    *)
(* id of every task created; when the parent does not exist the call fails   *)
(* before creating any task.                                                 *)

\* task.subtasks, empty when the task has none
SubtasksOf(task) == IF "subtasks" \in DOMAIN task THEN Range(task.subtasks) ELSE {}

C20_SubtasksAppended ==
    [][\A parentTaskId \in ParentIds, subtasks \in SubtaskLists :
          CreateSubtasks(parentTaskId, subtasks) =>
             IF FindTask(file, parentTaskId) = 0
             THEN file' = file /\ outcome' = "error"
             ELSE LET created == (Len(file) + 1)..Len(file')
                      before == file[FindTask(file, parentTaskId)]
                      after == file'[FindTask(file', parentTaskId)]
                  IN /\ Len(file') = Len(file) + Len(subtasks)
                     /\ \A i \in created : file'[i].parentTask = parentTaskId
                     /\ {file'[i].id : i \in created} \cap IdsOfData(file) = {}
                     /\ SubtasksOf(after)
                           = SubtasksOf(before) \cup {file'[i].id : i \in created}]_vars

\* what the code does: the parent's subtasks are the ids created by the last call only
C20_CodeBehaviour ==
    [][\A parentTaskId \in ParentIds, subtasks \in SubtaskLists :
          CreateSubtasks(parentTaskId, subtasks) =>
             IF FindTask(file, parentTaskId) = 0
             THEN file' = file /\ outcome' = "error"
             ELSE LET created == (Len(file) + 1)..Len(file')
                      after == file'[FindTask(file', parentTaskId)]
                  IN /\ Len(file') = Len(file) + Len(subtasks)
                     /\ \A i \in created : file'[i].parentTask = parentTaskId
                     /\ SubtasksOf(after) = {file'[i].id : i \in created}]_vars

-----------------------------------------------------------------------------
(* C21: a failed call to the remote issue tracker is never retried and       *)
(* always surfaces: whenever an issue get or update made by syncTaskStatus,  *)
(* updateIssueFromYaml or updateReferences fails, the operation ends in an   *)
(* error the caller observes, and a request that failed is not sent again.   *)

RemoteOperations == {"syncTaskStatus", "updateIssueFromYaml", "updateReferences"}

\* the request of an entry of the log
SameRequest(a, b) == a.op = b.op /\ a.repo = b.repo /\ a.issue = b.issue

C21_RemoteFailureSurfaces ==
    io.call \in RemoteOperations =>
        LET log == io.result.log
        IN /\ (\E k \in DOMAIN log : ~log[k].ok) => (io.result.threw /\ outcome = "error")
           /\ \A j, k \in DOMAIN log : (j < k /\ ~log[j].ok) => ~SameRequest(log[j], log[k])

\* what the code does: only the operation's own issue update surfaces; a failure
\* while validating or updating references is logged and the operation succeeds.
\* Nothing is retried: a reference is fetched at most once for validation and once
\* for the update, and updated at most once
C21_CodeBehaviour ==
    io.call \in RemoteOperations =>
        LET log == io.result.log
            references == IF io.call = "updateReferences" THEN io.args[3]
                          ELSE IF io.call = "updateIssueFromYaml"
                               THEN ParseReferencesOf(io.args[3].content).value
                               ELSE <<>>
            own == IF io.call = "updateReferences" THEN 0 ELSE 1
            Sent(op, ref) == Cardinality({k \in DOMAIN log : k > own /\ log[k].op = op
                                            /\ log[k].repo = ref.repo
                                            /\ log[k].issue = ref.issue})
            Listed(ref) == Cardinality({i \in DOMAIN references : references[i] = ref})
        IN /\ io.result.threw <=> (own = 1 /\ log # <<>> /\ ~log[1].ok)
           /\ (io.result.threw <=> outcome = "error")
           /\ io.result.threw => Len(log) = 1
           /\ Len(log) <= own + 3 * Len(references)
           /\ \A ref \in Range(references) :
                 /\ Sent("get", ref) <= 2 * Listed(ref)
                 /\ Sent("update", ref) <= Listed(ref)

-----------------------------------------------------------------------------
(* C22: validation of a snapshot fails whenever the snapshot contains a      *)
(* duplicate task id, a dependency on a task id that does not exist, a       *)
(* dependency cycle, or a cross-repo reference with an unknown repository or *)
(* a non-positive issue number; a snapshot with none of these defects that   *)
(* satisfies the schema is accepted.                                         *)

DuplicateIds(data) == ~NoDuplicates([i \in DOMAIN data.tasks |-> data.tasks[i].id])

DanglingDependency(data) ==
    \/ Dangling(data.tasks) # {}
    \/ \E e \in DOMAIN data.dependencies :
          (Range(data.dependencies[e].deps) \cup {ParseInt(data.dependencies[e].taskId)})
             \ IdsOf(data.tasks) # {}

DependencyCycle(data) == ~Acyclic(DepEdges(data.tasks))

InvalidCrossRepoRef(data) ==
    \E i \in DOMAIN data.tasks : \E ref \in Range(data.tasks[i].cross_repo_refs) :
        ref.repo \notin KnownRepos \/ ref.issue <= 0

C22_DefectiveSnapshotRejected ==
    io.call = "validateYamlFile" =>
        LET data == io.args[1]
            defective == \/ DuplicateIds(data)
                         \/ DanglingDependency(data)
                         \/ DependencyCycle(data)
                         \/ InvalidCrossRepoRef(data)
        IN /\ defective => (io.result.exitCode = 1 /\ outcome = "error")
           /\ (~defective /\ SchemaValid(data)) => io.result.returned

\* what the code does: cycles are not looked for
C22_CodeBehaviour ==
    io.call = "validateYamlFile" =>
        LET data == io.args[1]
        IN io.result.returned <=>
              /\ SchemaValid(data)
              /\ ~DuplicateIds(data)
              /\ ~DanglingDependency(data)
              /\ ~InvalidCrossRepoRef(data)

-----------------------------------------------------------------------------
(* C23: the graph engine never builds a graph from a snapshot that fails     *)
(* validation: a snapshot that violates the schema (here: a status outside   *)
(* the enum) is rejected before buildGraph() reads it, so every graph that   *)
(* exists was built from a snapshot that passed validation.                  *)

\* the statuses some enum of the program allows: the schema's, the labels' and the
\* graph engine's
AllowedStatuses == SchemaStatuses \cup StatusLabels \cup Statuses

PassesValidation(data) == \A i \in DOMAIN data : data[i].status \in AllowedStatuses

C23_GraphOnlyFromValidSnapshot == built.done => PassesValidation(built.data)

\* what the code does: buildGraph() takes whatever getAllTasks() reads from the file,
\* each node carrying the status the file holds
C23_CodeBehaviour ==
    built.done =>
        /\ graph = BuildGraphOf(GetAllTasks(built.data))
        /\ outcome = "ok"
        /\ \A i \in DOMAIN built.data :
              graph.label[Str(built.data[i].id)].status = built.data[i].status

-----------------------------------------------------------------------------
(* C24: every entry of the list findCycles() returns is a genuine cycle of   *)
(* the graph: a non-empty node sequence n1..nk in which each n(i) -> n(i+1)  *)
(* is an edge and nk -> n1 is an edge; this holds for every graph, including *)
(* graphs with several cycles and nodes leading into a cycle already found.  *)

GenuineCycle(g, c) ==
    /\ c # <<>>
    /\ \A i \in 1..(Len(c) - 1) : <<c[i], c[i + 1]>> \in g.edges
    /\ <<c[Len(c)], c[1]>> \in g.edges

C24_CyclesAreGenuine ==
    built.done => \A i \in DOMAIN FindCycles(graph) : GenuineCycle(graph, FindCycles(graph)[i])

\* what the code does: the first entry is a genuine cycle; a later entry is a genuine
\* cycle or the single node from which an edge leads back into the nodes a search
\* that found a cycle left on the recursion stack
C24_CodeBehaviour ==
    built.done =>
        LET cycles == FindCycles(graph)
        IN \A i \in DOMAIN cycles :
              \/ GenuineCycle(graph, cycles[i])
              \/ /\ i > 1
                 /\ Len(cycles[i]) = 1
                 /\ \E n \in graph.nodes : <<cycles[i][1], n>> \in graph.edges

-----------------------------------------------------------------------------
(* C25: getAllDownstreamTasks(id) and getAffectedTasks(id) are the same      *)
(* traversal: for every graph (cyclic or not) and every task id they return  *)
(* the same set of tasks.                                                    *)

C25_DownstreamEqualsAffected ==
    built.done =>
        \A id \in TaskIds :
            /\ Range(DownstreamKeys(graph, id)) = Range(AffectedKeys(graph, id))
            /\ Range(GetAllDownstreamTasks(graph, id)) = Range(GetAffectedTasks(graph, id))

\* what the code does: getAffectedTasks always removes the task asked about, and
\* getAllDownstreamTasks lists it when it lies on a cycle; they agree otherwise
C25_CodeBehaviour ==
    built.done =>
        \A id \in TaskIds :
            LET downstream == Range(DownstreamKeys(graph, id))
                affected == Range(AffectedKeys(graph, id))
                onCycle == id \in Descendants(DepEdges(built.tasks), id)
            IN /\ affected = downstream \ {Str(id)}
               /\ Str(id) \in downstream <=> onCycle
               /\ ~onCycle => Range(GetAllDownstreamTasks(graph, id))
                                 = Range(GetAffectedTasks(graph, id))

-----------------------------------------------------------------------------
(* C26: the one-hop availability rule is sufficient: in every state reachable *)
(* through the status store's update operations a completed task has all of  *)
(* its own predecessors completed, and therefore every task returned by      *)
(* getAvailableTasks() has all of its transitive prerequisites completed.    *)

\* the tasks id depends on, directly or through other tasks
Prerequisites(E, id) == {e[1] : e \in {x \in E : id \in Descendants(E, x[1])}}

Completed(tasks, id) == id \in IdsOf(tasks) /\ TaskById(tasks, id).status = "completed"

C26_OneHopRuleSufficient ==
    built.done =>
        LET E == DepEdges(built.tasks)
            r == GetAvailableTasks(graph)
        IN /\ \A i \in DOMAIN built.tasks :
                 built.tasks[i].status = "completed" =>
                    \A d \in Range(built.tasks[i].dependencies) : Completed(built.tasks, d)
           /\ ~r.threw
           /\ \A i \in DOMAIN r.value :
                 \A p \in Prerequisites(E, r.value[i].id) : Completed(built.tasks, p)

\* what the code does: updateTask writes 'completed' whatever the predecessors' status
\* is, and an available task has its direct dependencies completed, nothing more
C26_CodeBehaviour ==
    built.done =>
        LET r == GetAvailableTasks(graph)
        IN ~r.threw =>
              \A i \in DOMAIN r.value :
                 \A d \in Range(r.value[i].dependencies) : Completed(built.tasks, d)

-----------------------------------------------------------------------------
(* C27: task ids are stable and unique: after any updateTask(id, updates) or *)
(* updateTaskDependencies on a snapshot with unique ids every task still has *)
(* the id it had before, no two tasks share an id, and the update changed    *)
(* only the named fields of the one task with that id.                       *)

UniqueIds(data) == NoDuplicates([i \in DOMAIN data |-> data[i].id])

\* only the fields named of the task with the id differ between before and after
OnlyNamedFieldsOf(before, after, taskId, named) ==
    /\ DOMAIN after = DOMAIN before
    /\ \A i \in DOMAIN before :
          /\ before[i].id # taskId => after[i] = before[i]
          /\ \A f \in DOMAIN before[i] \ named : after[i][f] = before[i][f]

IdsKept(before, after) ==
    /\ DOMAIN after = DOMAIN before
    /\ \A i \in DOMAIN before : after[i].id = before[i].id
    /\ UniqueIds(after)

C27_IdsStableAndUnique ==
    [][UniqueIds(file) =>
          /\ \A taskId \in CallIds, u \in IdUpdates :
                UpdateTask(taskId, u) =>
                   IdsKept(file, file') /\ OnlyNamedFieldsOf(file, file', taskId, DOMAIN u)
          /\ \A taskId \in CallIds, d \in IdDependencies :
                UpdateTaskDependencies(taskId, d, <<>>) =>
                   /\ IdsKept(file, file')
                   /\ OnlyNamedFieldsOf(file, file', taskId, {"dependencies", "blocking"})]_vars

\* what the code does: the id is a field like any other, so updates naming it replace
\* it; other updates keep the ids, and every update touches the named fields of the
\* one task only
C27_CodeBehaviour ==
    [][UniqueIds(file) =>
          /\ \A taskId \in CallIds, u \in IdUpdates :
                UpdateTask(taskId, u) =>
                   /\ OnlyNamedFieldsOf(file, file', taskId, DOMAIN u)
                   /\ "id" \notin DOMAIN u => IdsKept(file, file')
                   /\ ("id" \in DOMAIN u /\ taskId \in IdsOfData(file)) =>
                         file'[FindTask(file, taskId)].id = u.id
          /\ \A taskId \in CallIds, d \in IdDependencies :
                UpdateTaskDependencies(taskId, d, <<>>) =>
                   /\ IdsKept(file, file')
                   /\ OnlyNamedFieldsOf(file, file', taskId, {"dependencies", "blocking"})]_vars

-----------------------------------------------------------------------------
(* C28: when several updateTaskStatus calls for the same task are issued     *)
(* concurrently in one process and awaited together, each call's             *)
(* read-modify-write of the store runs to completion before the next call's  *)
(* begins, so the persisted status is the status of the call issued last,    *)
(* and once all calls have resolved the graph's status for the task equals   *)
(* the persisted status.                                                     *)

C28_ConcurrentStatusUpdates ==
    (io.call = "updateTaskStatus" /\ io.args[1] \in IdsOfData(file)) =>
        LET taskId == io.args[1]
            persisted == file[FindTask(file, taskId)].status
        IN /\ persisted = IssuedCalls[Len(IssuedCalls)].status
           /\ \A i \in DOMAIN file : file[i].id # taskId => file[i] = FileTask(file[i].id)
           /\ Awaiting = {} =>
                 /\ Str(taskId) \in graph.nodes
                 /\ graph.label[Str(taskId)].status = persisted

\* three calls with three statuses have resolved
C28_Witness ==
    /\ io.call = "updateTaskStatus"
    /\ io.args[1] = 1
    /\ Len(IssuedCalls) = 3
    /\ Awaiting = {}
    /\ IssuedCalls[1].status = "in_progress"
    /\ IssuedCalls[2].status = "completed"
    /\ IssuedCalls[3].status = "ready"
    /\ graph.label["1"].status = "ready"

-----------------------------------------------------------------------------
(* C29: progress without deadlock: if the dependency graph is acyclic with   *)
(* no dangling dependencies and the caller only changes state by marking a   *)
(* task returned by getAvailableTasks() as completed (the graph being        *)
(* rebuilt after each update), then whenever some task is not completed      *)
(* getAvailableTasks() is non-empty, and all tasks are eventually completed; *)
(* a task on a dependency cycle whose members are all non-completed is never *)
(* returned by getAvailableTasks().                                          *)

AllCompleted == \A i \in DOMAIN file : file[i].status = "completed"

Workable == built.done /\ Acyclic(DepEdges(built.tasks)) /\ Dangling(built.tasks) = {}

\* the tasks on a cycle with id
CycleOf(E, id) == {m \in Descendants(E, id) : id \in Descendants(E, m)}

AvailableIds == {GetAvailableTasks(graph).value[i].id : i \in DOMAIN GetAvailableTasks(graph).value}

SomeTaskAvailable ==
    (Workable /\ ~AllCompleted) => (~GetAvailableTasks(graph).threw /\ AvailableIds # {})

CycleNeverAvailable ==
    built.done =>
        \A id \in IdsOf(built.tasks) :
            (/\ id \in CycleOf(DepEdges(built.tasks), id)
             /\ \A m \in CycleOf(DepEdges(built.tasks), id) : ~Completed(built.tasks, m))
            => (~GetAvailableTasks(graph).threw /\ id \notin AvailableIds)

-----------------------------------------------------------------------------
(* C30: unreachable tasks only exist in cyclic graphs: for every graph, if   *)
(* validateDependencies().unreachableTasks (the tasks not reachable by       *)
(* forward traversal from any task with no predecessors) is non-empty then   *)
(* hasCycles is true; for every acyclic task set, including isolated tasks   *)
(* and disconnected components, unreachableTasks is empty.                   *)

C30_UnreachableOnlyWithCycles ==
    built.done =>
        LET report == ValidateDependencies(graph)
        IN /\ FindUnreachableTasks(graph) # <<>> => HasCycles(graph)
           /\ Acyclic(DepEdges(built.tasks)) => FindUnreachableTasks(graph) = <<>>
           /\ ~report.threw =>
                 /\ report.value.unreachableTasks = FindUnreachableTasks(graph)
                 /\ report.value.unreachableTasks # <<>> => report.value.hasCycles

\* tasks 1 and 2 depend on each other and task 3 depends on task 1: no task is
\* reachable, task 3 included, which lies on no cycle
C30_Witness ==
    /\ built.done
    /\ DepEdges(built.tasks) = {<<1, 2>>, <<2, 1>>, <<1, 3>>}
    /\ Len(ValidateDependencies(graph).value.unreachableTasks) = 3
    /\ ValidateDependencies(graph).value.hasCycles

====
